---- MODULE Spec2Model ----
(***************************************************************************)
(* A model of the 4bottle / 4Q archive tools: the ArchiveWriter that walks *)
(* a tree of files and folders and nests their bottles, the command-line   *)
(* pack tool that wraps the result in compressed / encrypted / hashed      *)
(* bottles, the ArchiveReader that scans a bottle recursively, and the     *)
(* unpack tool that writes the scanned files into an output folder.        *)
(*                                                                         *)
(* Bottles are modelled as values: a bottle has a type, a header and a     *)
(* sequence of substreams, each either raw data or a nested bottle.  The   *)
(* bottle framing itself (bottle_stream, bottle_header, zint) is not part  *)
(* of the sources at hand and is modelled from the format description.     *)
(***************************************************************************)
EXTENDS Integers, Sequences, FiniteSets, TLC

\* ---------------------------------------------------------------- bounds

\* At most this many files and folders in the packed input (a synthesized
\* top folder counts as one).
MaxNodes == 4
\* At most this many entries in one folder listing.
MaxKids == 2
\* File contents are 0..MaxLen bytes long.
MaxLen == 2
\* Number of distinct entry names.
NumNames == 2
\* A read stream delivers at most this many bytes per "data" event.
ChunkLen == 1
\* Date.now() returns a value in 1..MaxClock (milliseconds).
MaxClock == 2

\* -------------------------------------------------------------- constants

\* bottle types (bottle_stream.TYPE_*)
TYPE_FILE == "file"
TYPE_HASHED == "hashed"
TYPE_ENCRYPTED == "encrypted"
TYPE_COMPRESSED == "compressed"
\* a bottle type this reader has no case for
TYPE_UNKNOWN == "unknown"

\* the mode of a synthesized folder
FakeFolderMode == 448
\* nanoseconds per millisecond
NanosPerMilli == 1000000
\* stats.mode & 0x1ff keeps the nine permission bits: the mode modulo this
ModeMask == 512

NameOf == <<"a", "b", "c", "d", "e">>
Names == {NameOf[i] : i \in 1..NumNames}

\* the name given to a synthesized top folder: basename of the output file
ArchiveName == "archive"

\* an absent optional value, and a present one
None == <<>>
Some(v) == <<v>>

\* ------------------------------------------------------ the file system

\* the content of a file of n bytes
DataOfLen(n) == [i \in 1..n |-> i]

FileNode(nm, len) ==
  [kind |-> "file", name |-> nm, data |-> DataOfLen(len), kids |-> <<>>]
FolderNode(nm, ks) ==
  [kind |-> "folder", name |-> nm, data |-> <<>>, kids |-> ks]

RECURSIVE NodeCount(_)
RECURSIVE ForestCount(_)
NodeCount(t) == 1 + ForestCount(t.kids)
ForestCount(f) ==
  IF f = <<>> THEN 0 ELSE NodeCount(Head(f)) + ForestCount(Tail(f))

\* Trees(n): the trees of at most n nodes; Forests(n, k): the listings of at
\* most k entries with distinct names and at most n nodes in all.
RECURSIVE Trees(_)
RECURSIVE Forests(_, _)
Trees(n) ==
  IF n = 0 THEN {}
  ELSE {FileNode(nm, len) : nm \in Names, len \in 0..MaxLen}
       \cup {FolderNode(nm, ks) : nm \in Names, ks \in Forests(n - 1, MaxKids)}
Forests(n, k) ==
  {<<>>} \cup
  (IF n = 0 \/ k = 0 THEN {}
   ELSE UNION {
     {<<t>> \o f : f \in {g \in Forests(n - NodeCount(t), k - 1) :
                            \A i \in 1..Len(g) : g[i].name # t.name}}
     : t \in Trees(n)})

\* ------------------------------------------------------------- variables

VARIABLES
  argv,     \* the command line of pack: the paths and the options
  phase,    \* "pack", "packed", "read", then "done" or "failed"
  wt,       \* the writer's tasks, by path (a sequence of child indexes)
  wlog,     \* the events the ArchiveWriter emitted
  archive,  \* the bottle stored in the archive file
  tool,     \* who reads the archive: "scan" (a bare ArchiveReader), "list"
            \* or "unpack"; unpack's --force, and what its output folder
            \* held when it started
  rstack,   \* the reader's open bottles, outermost first
  rlog,     \* the events the ArchiveReader emitted
  scanres,  \* the promise scanStream returned: its state and its error
            \* ("exited": the tool left by process.exit before it settled)
  us,       \* the state record of unpackArchiveFile
  outfs,    \* the output folder: what is at each relative path
  dk,       \* a call of the tool's decryptKey: its inputs, the keybase
            \* commands it ran, where it stands and what it returned
  br,       \* a bottle reader over one bottle's substreams, and the calls
            \* of next_substream made on it
  qw,       \* the qpack.coffee tool at work: its tasks by path, and the
            \* WritableBottle of each file and folder
  cv        \* a codec at work: the value it is given, what it is encoded
            \* to, and what that decodes to

wvars == <<wt, wlog>>
rvars == <<rstack, rlog, scanres, us, outfs>>
\* the parts that are looked at on their own
xvars == <<dk, br, qw, cv>>
vars ==
  <<argv, phase, wt, wlog, archive, tool, rstack, rlog, scanres, us, outfs,
    dk, br, qw, cv>>

\* ------------------------------------------------------- paths and nodes

\* the synthesized folder that holds the paths of a multi-path command line
FakeRoot == [kind |-> "fake", name |-> ArchiveName, data |-> <<>>,
             kids |-> argv.paths]

\* the entry the writer's walk starts from: the only path, or the fake folder
RootNode == IF Len(argv.paths) > 1 THEN FakeRoot ELSE argv.paths[1]

RECURSIVE NodeBelow(_, _)
NodeBelow(t, p) == IF p = <<>> THEN t ELSE NodeBelow(t.kids[Head(p)], Tail(p))
\* the entry at path p (child indexes from the root)
NodeAt(p) == NodeBelow(RootNode, p)

Parent(p) == SubSeq(p, 1, Len(p) - 1)
Last(s) == s[Len(s)]

\* ------------------------------------------------------------- headers

NoHeader ==
  [filename |-> "", folder |-> FALSE, size |-> None, mode |-> None,
   createdNanos |-> None, modifiedNanos |-> None, accessedNanos |-> None]

\* what fs.stat reports for an entry; st_mode is that of a regular file
\* rw-r--r-- or of a directory rwxr-xr-x, file-type bits included
StatOf(node) ==
  [size |-> Len(node.data),
   mode |-> IF node.kind = "file" THEN 33188 ELSE 16877,
   ctime |-> 1, mtime |-> 2, atime |-> 3,
   isDirectory |-> node.kind # "file"]

\* a FILE header from the basename and the stat record
fileHeaderFromStats(basename, stats) ==
  [filename |-> basename,
   folder |-> stats.isDirectory,
   size |-> IF stats.isDirectory THEN None ELSE Some(stats.size),
   mode |-> Some(stats.mode % ModeMask),
   createdNanos |-> Some(stats.ctime * NanosPerMilli),
   modifiedNanos |-> Some(stats.mtime * NanosPerMilli),
   accessedNanos |-> Some(stats.atime * NanosPerMilli)]

\* a synthesized header that stamps the three times one after the other
makeFakeFolderHeaderTicking(name, now) ==
  [filename |-> name,
   folder |-> TRUE,
   size |-> None,
   mode |-> Some(FakeFolderMode),
   createdNanos |-> Some(now * NanosPerMilli),
   modifiedNanos |-> Some((now + 1) * NanosPerMilli),
   accessedNanos |-> Some((now + 2) * NanosPerMilli)]

\* the header of a synthesized folder; now is Date.now()
makeFakeFolderHeader(name, now) ==
  [filename |-> name,
   folder |-> TRUE,
   size |-> None,
   mode |-> Some(FakeFolderMode),
   createdNanos |-> Some(now * NanosPerMilli),
   modifiedNanos |-> Some(now * NanosPerMilli),
   accessedNanos |-> Some(now * NanosPerMilli)]

\* A display name is its path components and whether it ends in "/".
NoDisplay == [parts |-> <<>>, slash |-> FALSE]
\* a display name that never ends in "/"
displayNameOfPlain(prefix, basename, folder) ==
  [parts |-> prefix.parts \o <<basename>>, slash |-> FALSE]

\* (if prefix? then path.join(prefix, basename) else basename) + "/" if folder
displayNameOf(prefix, basename, folder) ==
  [parts |-> prefix.parts \o <<basename>>, slash |-> folder]

\* -------------------------------------------------------------- bottles

DataSub(d) == [kind |-> "data", data |-> d]
BottleSub(b) == [kind |-> "bottle", bottle |-> b]

FileBottle(header, data) ==
  [type |-> TYPE_FILE, header |-> header, subs |-> <<DataSub(data)>>]
FolderBottle(header, bottles) ==
  [type |-> TYPE_FILE, header |-> header,
   subs |-> [i \in 1..Len(bottles) |-> BottleSub(bottles[i])]]

\* ------------------------------------------------------ the ArchiveWriter

NewTask(st) ==
  [st |-> st, header |-> NoHeader, display |-> NoDisplay,
   queue |-> <<>>, running |-> {}, subs |-> <<>>, got |-> <<>>]

Started(p) == p \in DOMAIN wt

\* a listing taken from its end
ListingOrderReversed(kids) == [i \in 1..Len(kids) |-> Len(kids) + 1 - i]

\* the order in which a folder's entries are archived: fs.readdir's order
ListingOrder(kids) == [i \in 1..Len(kids) |-> i]

\* a loop that starts every item at once
foreachParallelReady(t) == TRUE

\* foreachSerial starts the next item only when the promise of the item
\* before it has been fulfilled
foreachSerialReady(t) == t.running = {}

\* the display name that prefixes the children of the folder at p
PrefixOf(p) == IF p = <<>> THEN NoDisplay ELSE wt[Parent(p)].display

\* the folder task at q gets the bottle stream of its child k written into it
\* (toolkit.qwrite(folderBottle, fileStream))
QWrite(w, q, k) == [w EXCEPT ![q].subs = @ \o <<k>>]
\* ... and that write completes when the child's bottle has ended
QWriteDone(w, q, k) == [w EXCEPT ![q].running = @ \ {k}]

\* writer.archiveFile(filename): _processFile(filename, null)
archiveFile ==
  /\ phase = "pack"
  /\ wt = <<>>
  /\ Len(argv.paths) = 1
  /\ wt' = (<<>> :> NewTask("stat"))
  /\ UNCHANGED <<xvars, argv, phase, wlog, archive, tool, rvars>>

\* writer.archiveFiles(folderName, filenames): a fake folder header, its
\* "filename" event, and _processFolder over the given paths
archiveFiles ==
  /\ phase = "pack"
  /\ wt = <<>>
  /\ Len(argv.paths) > 1
  /\ \E now \in 1..MaxClock :
       LET header == makeFakeFolderHeader(ArchiveName, now)
           prefix == [parts |-> <<ArchiveName>>, slash |-> TRUE]
       IN /\ wlog' = wlog \o <<[ev |-> "filename", name |-> prefix,
                                header |-> header, count |-> 0]>>
          /\ wt' = (<<>> :> [NewTask("filling") EXCEPT
                               !.header = header, !.display = prefix,
                               !.queue = ListingOrder(argv.paths)])
  /\ UNCHANGED <<xvars, argv, phase, archive, tool, rvars>>

\* _processFile, the fs.stat callback: the header, the "filename" event, and
\* then either _processFolder (fs.readdir pending) or fs.open pending
StatDone(p) ==
  /\ phase = "pack"
  /\ Started(p)
  /\ wt[p].st = "stat"
  /\ LET node == NodeAt(p)
         header == fileHeaderFromStats(node.name, StatOf(node))
         display == displayNameOf(PrefixOf(p), node.name, header.folder)
     IN /\ wlog' = wlog \o <<[ev |-> "filename", name |-> display,
                              header |-> header, count |-> 0]>>
        /\ wt' = [wt EXCEPT ![p].header = header, ![p].display = display,
                            ![p].st = IF header.folder THEN "readdir" ELSE "open"]
  /\ UNCHANGED <<xvars, argv, phase, archive, tool, rvars>>

\* _processFolder, the fs.readdir callback: the FolderBottleWriter is made
\* and returned (the parent writes it into its own bottle), and it is filled
\* in the background
ReaddirDone(p) ==
  /\ phase = "pack"
  /\ Started(p)
  /\ wt[p].st = "readdir"
  /\ LET w1 == [wt EXCEPT ![p].st = "filling",
                          ![p].queue = ListingOrder(NodeAt(p).kids)]
     IN wt' = IF p = <<>> THEN w1 ELSE QWrite(w1, Parent(p), Last(p))
  /\ UNCHANGED <<xvars, argv, phase, wlog, archive, tool, rvars>>

\* foreachSerial: shift the next entry off the list and _processFile it
ForeachNext(p) ==
  /\ phase = "pack"
  /\ Started(p)
  /\ wt[p].st = "filling"
  /\ wt[p].queue # <<>>
  /\ foreachSerialReady(wt[p])
  /\ LET k == Head(wt[p].queue)
     IN wt' = [wt EXCEPT ![p].queue = Tail(@), ![p].running = @ \cup {k}]
              @@ ((p \o <<k>>) :> NewTask("stat"))
  /\ UNCHANGED <<xvars, argv, phase, wlog, archive, tool, rvars>>

\* _processFile, the fs.open callback: the read stream is piped through the
\* counting stream into a new FileBottleWriter, which is returned
OpenDone(p) ==
  /\ phase = "pack"
  /\ Started(p)
  /\ wt[p].st = "open"
  /\ LET w1 == [wt EXCEPT ![p].st = "streaming"]
     IN wt' = IF p = <<>> THEN w1 ELSE QWrite(w1, Parent(p), Last(p))
  /\ UNCHANGED <<xvars, argv, phase, wlog, archive, tool, rvars>>

\* the read stream delivers its next bytes; the counting stream reports the
\* running count as a "status" event
ReadChunk(p) ==
  /\ phase = "pack"
  /\ Started(p)
  /\ wt[p].st = "streaming"
  /\ Len(wt[p].got) < Len(NodeAt(p).data)
  /\ LET data == NodeAt(p).data
         from == Len(wt[p].got) + 1
         to == IF from + ChunkLen - 1 < Len(data) THEN from + ChunkLen - 1
               ELSE Len(data)
         got == wt[p].got \o SubSeq(data, from, to)
     IN /\ wt' = [wt EXCEPT ![p].got = got]
        /\ wlog' = wlog \o <<[ev |-> "status", name |-> wt[p].display,
                              header |-> NoHeader, count |-> Len(got)]>>
  /\ UNCHANGED <<xvars, argv, phase, archive, tool, rvars>>

\* the read stream ends and is closed, and with it the file's bottle
FileEnd(p) ==
  /\ phase = "pack"
  /\ Started(p)
  /\ wt[p].st = "streaming"
  /\ Len(wt[p].got) = Len(NodeAt(p).data)
  /\ LET w1 == [wt EXCEPT ![p].st = "ended"]
     IN wt' = IF p = <<>> THEN w1 ELSE QWriteDone(w1, Parent(p), Last(p))
  /\ UNCHANGED <<xvars, argv, phase, wlog, archive, tool, rvars>>

\* foreachSerial is through the list: folderBottle.end()
FolderEnd(p) ==
  /\ phase = "pack"
  /\ Started(p)
  /\ wt[p].st = "filling"
  /\ wt[p].queue = <<>>
  /\ wt[p].running = {}
  /\ LET w1 == [wt EXCEPT ![p].st = "ended"]
     IN wt' = IF p = <<>> THEN w1 ELSE QWriteDone(w1, Parent(p), Last(p))
  /\ UNCHANGED <<xvars, argv, phase, wlog, archive, tool, rvars>>

\* the fs calls an entry's task can be waiting for
FsCalls == {"stat", "readdir", "open"}

WriterEvent(ev, display) ==
  [ev |-> ev, name |-> display, header |-> NoHeader, count |-> 0]

\* a failure that every folder up the chain reports again
SurfaceAtEveryLevel(p) ==
  [i \in 1..(Len(p) + 1) |->
     IF i = Len(p) + 1 THEN WriterEvent("rejected", NoDisplay)
     ELSE WriterEvent("error", wt[SubSeq(p, 1, Len(p) - i)].display)]

\* a failure that nobody hears of
SurfaceNowhere(p) == <<>>

\* Where the rejection of the entry at p comes out.  At the top it is the
\* promise archiveFile returned that is rejected.  Below, the promise of
\* _processFile is the item of the folder's foreachSerial, whose .fail
\* emits "error"; the folder's own promise was fulfilled before.
Surface(p) ==
  IF p = <<>> THEN <<WriterEvent("rejected", NoDisplay)>>
  ELSE <<WriterEvent("error", wt[Parent(p)].display)>>

\* qify: fs.stat, fs.readdir or fs.open calls back with an error, and the
\* promise is rejected.  No bottle is made for the entry; its folder's
\* foreachSerial stops and the folder's bottle is never ended.  The tool
\* reports the failure (die, or the catch of main) and exits.
FsFail(p) ==
  /\ phase = "pack"
  /\ Started(p)
  /\ wt[p].st \in FsCalls
  /\ wt' = IF p = <<>> THEN [wt EXCEPT ![p].st = "failed"]
           ELSE [wt EXCEPT ![p].st = "failed", ![Parent(p)].st = "errored"]
  /\ wlog' = wlog \o Surface(p)
  /\ phase' = "packfailed"
  /\ UNCHANGED <<xvars, argv, archive, tool, rvars>>

\* the bottle the task at p has produced
RECURSIVE BottleOf(_)
BottleOf(p) ==
  IF wt[p].header.folder
  THEN FolderBottle(wt[p].header,
         [i \in 1..Len(wt[p].subs) |-> BottleOf(p \o <<wt[p].subs[i]>>)])
  ELSE FileBottle(wt[p].header, wt[p].got)

\* ------------------------------------------------- the layers of pack

HASH_SHA512 == "sha512"
COMPRESSION_LZMA2 == "lzma2"
COMPRESSION_SNAPPY == "snappy"
ENCRYPTION_AES_256_CTR == "aes256ctr"
NoCompression == "none"
\* a compression tag that names no codec
UnknownCodec == "unknown"

\* the one recipient of the model, and the one password
Recipient == "keybase:alice"
Password == "MrSparkle"
WrongPassword == "MrSprinkle"

NameCode(nm) ==
  IF nm = ArchiveName THEN 0
  ELSE CHOOSE i \in 1..Len(NameOf) : NameOf[i] = nm
OptCode(o) == IF o = None THEN <<0>> ELSE <<1, o[1]>>
TypeCode(t) ==
  CASE t = TYPE_FILE -> 1 [] t = TYPE_HASHED -> 2 [] t = TYPE_ENCRYPTED -> 3
    [] t = TYPE_COMPRESSED -> 4 [] OTHER -> 9
TagCode(s) ==
  CASE s = HASH_SHA512 -> 1 [] s = COMPRESSION_LZMA2 -> 2
    [] s = COMPRESSION_SNAPPY -> 3 [] s = ENCRYPTION_AES_256_CTR -> 4
    [] s = "garbled" -> 5 [] s = "data" -> 6 [] s = "bottle" -> 7
    [] s = "zip" -> 8 [] s = "cipher" -> 9 [] OTHER -> 0

RECURSIVE Flatten(_)
Flatten(ss) == IF ss = <<>> THEN <<>> ELSE Head(ss) \o Flatten(Tail(ss))

\* the bytes of a bottle on the wire, as a sequence of numbers: the type,
\* the header fields, each substream, and the end marker
RECURSIVE Wire(_)
RECURSIVE WireSub(_)
WireHeader(b) ==
  CASE "filename" \in DOMAIN b.header ->
         <<NameCode(b.header.filename), IF b.header.folder THEN 1 ELSE 0>>
         \o OptCode(b.header.size) \o OptCode(b.header.mode)
         \o OptCode(b.header.createdNanos) \o OptCode(b.header.modifiedNanos)
         \o OptCode(b.header.accessedNanos)
    [] OTHER -> <<TagCode(b.header.tag), Len(b.header.recipients)>>
WireSub(s) ==
  <<TagCode(s.kind)>> \o
  (CASE s.kind = "data" -> <<Len(s.data)>> \o s.data
     [] s.kind = "bottle" -> Wire(s.bottle)
     [] s.kind = "garbled" -> Wire(s.bottle)
     [] s.kind = "zip" -> <<TagCode(s.codec)>> \o Wire(s.bottle)
     [] s.kind = "cipher" -> Wire(s.bottle))
Wire(b) ==
  <<TypeCode(b.type)>> \o WireHeader(b)
  \o Flatten([i \in 1..Len(b.subs) |-> WireSub(b.subs[i])]) \o <<255>>

\* the digest of a byte sequence: a collision-free digest, so that two
\* digests are equal exactly when the bytes are
Digest(bytes) == <<Len(bytes)>> \o bytes

LayerHeader(tag, recipients) == [tag |-> tag, recipients |-> recipients]

\* HashBottleWriter: the inner bytes, then their digest
HashBottleWriter(hashType, inner) ==
  [type |-> TYPE_HASHED, header |-> LayerHeader(hashType, <<>>),
   subs |-> <<BottleSub(inner), DataSub(Digest(WireSub(BottleSub(inner))))>>]

\* CompressedBottleWriter: the inner bytes through the codec's encoder
CompressedBottleWriter(codec, inner) ==
  [type |-> TYPE_COMPRESSED, header |-> LayerHeader(codec, <<>>),
   subs |-> <<[kind |-> "zip", codec |-> codec, bottle |-> inner]>>]

\* writeEncryptedBottle: the inner bytes under a key; the header lists the
\* recipients that can unwrap the key (none in password mode)
writeEncryptedBottle(recipients, key, inner) ==
  [type |-> TYPE_ENCRYPTED,
   header |-> LayerHeader(ENCRYPTION_AES_256_CTR, recipients),
   subs |-> <<[kind |-> "cipher", key |-> key, bottle |-> inner]>>]

\* The options main hands to assemblePipes.  4pack: compression is chosen
\* only under --encrypt; qpack: by --no-compress.
PipeOptions(a) ==
  [hash |-> IF a.hash THEN HASH_SHA512 ELSE "none",
   recipients |-> a.encrypt,
   password |-> a.password,
   compression |->
     IF a.tool = "4pack"
     THEN (IF a.encrypt # None
           THEN (IF a.snappy THEN COMPRESSION_SNAPPY ELSE COMPRESSION_LZMA2)
           ELSE NoCompression)
     ELSE (IF a.compress
           THEN (IF a.snappy THEN COMPRESSION_SNAPPY ELSE COMPRESSION_LZMA2)
           ELSE NoCompression)]

\* pipes assembled the other way round: encryption innermost
assemblePipesEncryptFirst(o, bottle) ==
  LET e == IF o.recipients # None
           THEN writeEncryptedBottle(<<Recipient>>, "sessionkey", bottle)
           ELSE IF o.password # None
                THEN writeEncryptedBottle(<<>>, o.password[1], bottle)
                ELSE bottle
      c == IF o.compression # NoCompression
           THEN CompressedBottleWriter(o.compression, e) ELSE e
  IN IF o.hash # "none" THEN HashBottleWriter(o.hash, c) ELSE c

\* assemblePipes: the archive bottle goes into the compressed bottle, that
\* into the encrypted bottle, that into the hashed bottle, that to the file
assemblePipes(o, bottle) ==
  LET c == IF o.compression # NoCompression
           THEN CompressedBottleWriter(o.compression, bottle) ELSE bottle
      e == IF o.recipients # None
           THEN writeEncryptedBottle(<<Recipient>>, "sessionkey", c)
           ELSE IF o.password # None
                THEN writeEncryptedBottle(<<>>, o.password[1], c)
                ELSE c
  IN IF o.hash # "none" THEN HashBottleWriter(o.hash, e) ELSE e

\* the output stream has finished: the archive file is complete
PackFinish ==
  /\ phase = "pack"
  /\ Started(<<>>)
  /\ wt[<<>>].st = "ended"
  /\ archive' = assemblePipes(PipeOptions(argv), BottleOf(<<>>))
  /\ phase' = "packed"
  /\ UNCHANGED <<xvars, argv, wvars, tool, rvars>>

\* ------------------------------------------------------ values of events

\* The arguments of an event keep their JavaScript type, because a listener
\* takes them by position.
BoolV(b) == [t |-> "bool", v |-> b]
StrV(x) == [t |-> "str", v |-> x]
BottleV(b) == [t |-> "bottle", v |-> b]
Undef == [t |-> "undef", v |-> 0]
Arg(args, i) == IF i <= Len(args) THEN args[i] ELSE Undef
\* !x is false for true, a non-empty string, an object
Truthy(x) ==
  CASE x.t = "bool" -> x.v
    [] x.t = "str" -> x.v # <<>>
    [] x.t = "bottle" -> TRUE
    [] OTHER -> FALSE

\* bottle.typeName()
typeName(b) ==
  IF b.type = TYPE_FILE THEN (IF b.header.folder THEN "folder" ELSE "file")
  ELSE b.type

\* ------------------------------------------------------- the unpack tool

NoError == ""

InitUnpackState ==
  [totalFiles |-> 0, totalBytesOut |-> 0, currentFileTotalBytes |-> None,
   currentFilename |-> <<>>, mode |-> None, isFolder |-> FALSE,
   prefix |-> <<>>, validHash |-> None, shown |-> <<>>]

\* the mode a file is created with when the header has none: parseInt("666", 8)
DefaultFileMode == 438

\* ensureFolder(realFilename): make the folder (fs.mkdirSync, mode 0777)
\* unless it is there
ensureFolder(fs, dest) ==
  IF dest \in DOMAIN fs /\ fs[dest].kind = "folder" THEN fs
  ELSE (dest :> [kind |-> "folder", data |-> <<>>, mode |-> 511]) @@ fs

\* fs.mkdirSync throws EEXIST when something that is no folder is there
ensureFolderThrows(fs, dest) == dest \in DOMAIN fs /\ fs[dest].kind # "folder"

\* a start-bottle listener that forgets the folders it is inside of
UnpackOnStartNoPrefix(u, fs, b) ==
  IF typeName(b) \in {"file", "folder"}
  THEN LET niceFilename == <<b.header.filename>>
       IN [us |-> [u EXCEPT
                     !.currentFileTotalBytes = b.header.size,
                     !.currentFilename = niceFilename,
                     !.isFolder = b.header.folder,
                     !.mode = b.header.mode,
                     !.totalFiles = IF b.header.folder THEN @ ELSE @ + 1,
                     !.shown = @ \o <<[name |-> niceFilename,
                                       size |-> b.header.size,
                                       folder |-> b.header.folder]>>,
                     !.prefix = IF b.header.folder /\ ensureFolderThrows(fs, niceFilename)
                                THEN @ ELSE @ \o <<b.header.filename>>],
           fs |-> IF b.header.folder /\ ~ensureFolderThrows(fs, niceFilename)
                  THEN ensureFolder(fs, niceFilename) ELSE fs,
           err |-> IF b.header.folder /\ ensureFolderThrows(fs, niceFilename)
                   THEN "EEXIST" ELSE NoError]
  ELSE [us |-> u, fs |-> fs, err |-> NoError]

\* reader.on("start-bottle"): the current file name is the prefix stack and
\* the header's filename; a folder is made at once
UnpackOnStart(u, fs, b) ==
  IF typeName(b) \in {"file", "folder"}
  THEN LET niceFilename == u.prefix \o <<b.header.filename>>
       IN [us |-> [u EXCEPT
                     !.currentFileTotalBytes = b.header.size,
                     !.currentFilename = niceFilename,
                     !.isFolder = b.header.folder,
                     !.mode = b.header.mode,
                     !.totalFiles = IF b.header.folder THEN @ ELSE @ + 1,
                     !.shown = @ \o <<[name |-> niceFilename,
                                       size |-> b.header.size,
                                       folder |-> b.header.folder]>>,
                     !.prefix = IF b.header.folder /\ ensureFolderThrows(fs, niceFilename)
                                THEN @ ELSE @ \o <<b.header.filename>>],
           fs |-> IF b.header.folder /\ ~ensureFolderThrows(fs, niceFilename)
                  THEN ensureFolder(fs, niceFilename) ELSE fs,
           err |-> IF b.header.folder /\ ensureFolderThrows(fs, niceFilename)
                   THEN "EEXIST" ELSE NoError]
  ELSE [us |-> u, fs |-> fs, err |-> NoError]

\* the list tool's reader.on("start-bottle"): the summary line of the entry
\* is displayed, and the prefix stack and the totals are kept
ListOnStart(u, b) ==
  IF typeName(b) \in {"file", "folder"}
  THEN [u EXCEPT
          !.shown = @ \o <<[name |-> u.prefix \o <<b.header.filename>>,
                            size |-> b.header.size,
                            folder |-> b.header.folder]>>,
          !.prefix = @ \o <<b.header.filename>>,
          !.totalFiles = IF b.header.folder THEN @ ELSE @ + 1]
  ELSE u

\* the list tool's reader.on("end-bottle")
ListOnEnd(u, b) ==
  IF typeName(b) \in {"file", "folder"}
  THEN [u EXCEPT !.prefix = SubSeq(@, 1, Len(@) - 1)]
  ELSE u

\* an end-bottle listener that leaves the prefix stack as it is
UnpackOnEndNoPop(u, b) ==
  IF typeName(b) \in {"file", "folder"}
  THEN [u EXCEPT
          !.totalBytesOut =
            IF typeName(b) = "file" /\ u.currentFileTotalBytes # None
            THEN @ + u.currentFileTotalBytes[1] ELSE @,
          !.currentFileTotalBytes = Some(0)]
  ELSE u

\* reader.on("end-bottle")
UnpackOnEnd(u, b) ==
  IF typeName(b) \in {"file", "folder"}
  THEN [u EXCEPT
          !.totalBytesOut =
            IF typeName(b) = "file" /\ u.currentFileTotalBytes # None
            THEN @ + u.currentFileTotalBytes[1] ELSE @,
          !.currentFileTotalBytes = Some(0),
          !.prefix = SubSeq(@, 1, Len(@) - 1)]
  ELSE u

\* reader.on("hash", (bottle, isValid, hex) => ...): the listener names its
\* parameters by position
UnpackOnHash(u, args) ==
  LET bottle == Arg(args, 1)
      isValid == Arg(args, 2)
  IN IF ~Truthy(isValid)
     THEN [us |-> u, err |-> "Invalid hash; archive is probably corrupt."]
     ELSE IF u.prefix = <<>>
          THEN (IF bottle.t = "bottle"
                THEN [us |-> [u EXCEPT !.validHash = Some(bottle.v.header.tag)],
                      err |-> NoError]
                ELSE [us |-> u, err |-> "TypeError"])
          ELSE [us |-> u, err |-> NoError]

\* ------------------------------------------------------ the ArchiveReader

NewFrame(id, b, stage) ==
  [id |-> id, bottle |-> b, idx |-> 0, stage |-> stage,
   dest |-> <<>>, mode |-> 0, piped |-> <<>>]

Top == rstack[Len(rstack)]
Below == SubSeq(rstack, 1, Len(rstack) - 1)
WithTop(f) == Below \o <<f>>

Event(ev, id, args) == [ev |-> ev, id |-> id, args |-> args]
StartCount == Cardinality({i \in 1..Len(rlog) : rlog[i].ev = "start-bottle"})

\* scan's switch on bottle.type
ScanStage(b) ==
  CASE b.type = TYPE_FILE -> (IF b.header.folder THEN "folder" ELSE "file")
    [] b.type = TYPE_HASHED -> "hashed"
    [] b.type = TYPE_COMPRESSED -> "compressed"
    [] OTHER -> "skip"

\* an event that calls every hash valid
HashArgsValid(isValid, hex) == <<BoolV(TRUE), StrV(hex)>>

\* the arguments of the "hash" event
HashArgs(isValid, hex) == <<BoolV(isValid), StrV(hex)>>

Running == phase = "read" /\ scanres.st = "scanning" /\ rstack # <<>>

\* a failure that is noted while the scan goes on
RejectAndGoOn(err) ==
  /\ scanres' = [st |-> "scanning", err |-> err]
  /\ phase' = phase

\* the promise of scanStream is rejected: the tool reports it and exits
Reject(err) ==
  /\ scanres' = [st |-> "rejected", err |-> err]
  /\ phase' = "failed"

\* scan(bottle) with the open bottles `base` around it: "start-bottle" is
\* emitted (its listener runs) and the bottle is dispatched on its type; the
\* promise and the phase go on as res and ph unless the listener throws
Scan(base, b, res, ph) ==
  LET id == StartCount + 1
      h == IF tool.name = "unpack" THEN UnpackOnStart(us, outfs, b)
           ELSE IF tool.name = "list"
           THEN [us |-> ListOnStart(us, b), fs |-> outfs, err |-> NoError]
           ELSE [us |-> us, fs |-> outfs, err |-> NoError]
  IN /\ rlog' = rlog \o <<Event("start-bottle", id, <<BottleV(b)>>)>>
     /\ us' = h.us
     /\ outfs' = h.fs
     /\ IF h.err = NoError
        THEN /\ rstack' = base \o <<NewFrame(id, b, ScanStage(b))>>
             /\ scanres' = res
             /\ phase' = ph
        ELSE /\ rstack' = base
             /\ Reject(h.err)

\* scanStream(inStream) of the archive file: read the bottle, scan it
scanStream ==
  /\ phase = "packed"
  /\ scanres.st = "idle"
  /\ Scan(<<>>, archive, [st |-> "scanning", err |-> NoError], "read")
  /\ UNCHANGED <<xvars, argv, wvars, archive, tool>>

\* _scanFolder: the next substream is read as a bottle and scanned
ScanFolderChild ==
  /\ Running
  /\ Top.stage = "folder"
  /\ Top.idx < Len(Top.bottle.subs)
  /\ Top.bottle.subs[Top.idx + 1].kind = "bottle"
  /\ Scan(WithTop([Top EXCEPT !.idx = @ + 1]),
          Top.bottle.subs[Top.idx + 1].bottle, scanres, phase)
  /\ UNCHANGED <<xvars, argv, wvars, archive, tool>>

\* a reader that takes any read for the last
ScanNoMoreEarly ==
  /\ Running
  /\ Top.stage \in {"folder", "file", "skip"}
  /\ Top.idx <= Len(Top.bottle.subs)
  /\ rstack' = WithTop([Top EXCEPT !.stage = "end"])
  /\ UNCHANGED <<xvars, argv, phase, wvars, archive, tool, rlog, scanres, us, outfs>>

\* _scanFolder / _scanFile / _skipBottle: qread returned no stream, the
\* bottle's promise is fulfilled
ScanNoMore ==
  /\ Running
  /\ Top.stage \in {"folder", "file", "skip"}
  /\ Top.idx = Len(Top.bottle.subs)
  /\ rstack' = WithTop([Top EXCEPT !.stage = "end"])
  /\ UNCHANGED <<xvars, argv, phase, wvars, archive, tool, rlog, scanres, us, outfs>>

\* _scanFile: the next substream is handed to processFile.  The default
\* pipes it into a NullSinkStream; unpack's opens the destination file first
ScanFileData ==
  /\ Running
  /\ Top.stage = "file"
  /\ Top.idx < Len(Top.bottle.subs)
  /\ Top.bottle.subs[Top.idx + 1].kind = "data"
  /\ rlog' = rlog \o <<Event("processFile", Top.id,
                             <<StrV(Top.bottle.subs[Top.idx + 1].data)>>)>>
  /\ rstack' = WithTop([Top EXCEPT
                          !.idx = @ + 1,
                          !.stage = IF tool.name = "unpack" THEN "opening"
                                    ELSE "processing",
                          !.dest = us.currentFilename,
                          !.piped = <<>>,
                          !.mode = IF us.mode # None /\ us.mode # Some(0)
                                   THEN us.mode[1] ELSE DefaultFileMode])
  /\ UNCHANGED <<xvars, argv, phase, wvars, archive, tool, scanres, us, outfs>>

\* an open that takes "w" for its access whatever --force says
OpenThrowsForced(fs, dest, force) ==
  dest \in DOMAIN fs /\ fs[dest].kind # "file"

\* fs.open(realFilename, access, mode) with access "w" under --force and
\* "wx" without: "wx" fails when the path exists, "w" when it is a folder
OpenThrows(fs, dest, force) ==
  dest \in DOMAIN fs /\ (~force \/ fs[dest].kind # "file")

\* unpack's processFile: fs.open(realFilename, "wx" or "w", mode) succeeded
UnpackOpenDone ==
  /\ Running
  /\ Top.stage = "opening"
  /\ ~OpenThrows(outfs, Top.dest, tool.force)
  /\ outfs' = (Top.dest :>
                [kind |-> "file", data |-> <<>>,
                 mode |-> IF Top.dest \in DOMAIN outfs THEN outfs[Top.dest].mode
                          ELSE Top.mode])
              @@ outfs
  /\ rstack' = WithTop([Top EXCEPT !.stage = "processing"])
  /\ UNCHANGED <<xvars, argv, phase, wvars, archive, tool, rlog, scanres, us>>

\* an "error" listener that reports and returns: the catch of processFile
\* returns after it, and the promise of processFile is fulfilled
ErrorListenerReturns(code) ==
  [st |-> "scanning", err |-> NoError, phase |-> "read", stage |-> "file"]

\* unpack's "error" listener: it reports the error and calls
\* process.exit(1), inside the emit
ErrorListener(code) ==
  [st |-> "exited", err |-> code, phase |-> "failed", stage |-> "opening"]

\* unpack's processFile: fs.open failed; the catch emits "error" on the
\* reader, and the "error" listener reports it and exits with status 1
UnpackOpenFail ==
  /\ Running
  /\ Top.stage = "opening"
  /\ OpenThrows(outfs, Top.dest, tool.force)
  /\ rlog' = rlog \o <<Event("error", Top.id, <<StrV(<<"EEXIST">>)>>)>>
  /\ LET after == ErrorListener("EEXIST")
     IN /\ scanres' = [st |-> after.st, err |-> after.err]
        /\ phase' = after.phase
        /\ rstack' = WithTop([Top EXCEPT !.stage = after.stage])
  /\ UNCHANGED <<xvars, argv, wvars, archive, tool, us, outfs>>

\* dataStream.pipe(sink): the next bytes of the substream reach the sink,
\* which is the destination file for unpack and a NullSinkStream otherwise
PipeChunk ==
  /\ Running
  /\ Top.stage = "processing"
  /\ Len(Top.piped) < Len(Top.bottle.subs[Top.idx].data)
  /\ LET data == Top.bottle.subs[Top.idx].data
         from == Len(Top.piped) + 1
         to == IF from + ChunkLen - 1 < Len(data) THEN from + ChunkLen - 1
               ELSE Len(data)
         piped == Top.piped \o SubSeq(data, from, to)
     IN /\ rstack' = WithTop([Top EXCEPT !.piped = piped])
        /\ outfs' = IF tool.name = "unpack"
                    THEN [outfs EXCEPT ![Top.dest].data = piped] ELSE outfs
  /\ UNCHANGED <<xvars, argv, phase, wvars, archive, tool, rlog, scanres, us>>

\* a sink that reports its finish at once
qfinishAtOnce(f) == TRUE

\* the sink has seen the end of the stream
qfinish(f) == Len(f.piped) = Len(f.bottle.subs[f.idx].data)

\* the sink has finished: the promise of processFile is fulfilled
ProcessFileDone ==
  /\ Running
  /\ Top.stage = "processing"
  /\ qfinish(Top)
  /\ rlog' = rlog \o <<Event("drained", Top.id, <<StrV(Top.piped)>>)>>
  /\ rstack' = WithTop([Top EXCEPT !.stage = "file"])
  /\ UNCHANGED <<xvars, argv, phase, wvars, archive, tool, scanres, us, outfs>>

\* a reader that resolves the outcome without scanning the inner bottle
ScanHashedUnscanned ==
  /\ Running
  /\ Top.stage = "hashed"
  /\ Top.bottle.subs[1].kind = "bottle"
  /\ rstack' = WithTop([Top EXCEPT !.idx = 1, !.stage = "hashwait"])
  /\ UNCHANGED <<xvars, argv, phase, wvars, archive, tool, scanres, rlog, us, outfs>>

\* a reader that scans the inner bottle and lets the outcome be
ScanHashedOnly ==
  /\ Running
  /\ Top.stage = "hashed"
  /\ Top.bottle.subs[1].kind = "bottle"
  /\ Scan(WithTop([Top EXCEPT !.idx = 2, !.stage = "end"]),
          Top.bottle.subs[1].bottle, scanres, phase)
  /\ UNCHANGED <<xvars, argv, wvars, archive, tool>>

\* _scanHashed: bottle.validate() hands over the inner bottle, which is scanned
ScanHashed ==
  /\ Running
  /\ Top.stage = "hashed"
  /\ Top.bottle.subs[1].kind = "bottle"
  /\ Scan(WithTop([Top EXCEPT !.idx = 1, !.stage = "hashwait"]),
          Top.bottle.subs[1].bottle, scanres, phase)
  /\ UNCHANGED <<xvars, argv, wvars, archive, tool>>

\* what validate() resolves to once the inner bytes have all gone through
\* the digest: whether the digest read after them matches, and the digest
validate(b) ==
  LET hex == Digest(WireSub(b.subs[1]))
  IN [valid |-> hex = b.subs[2].data, hex |-> hex]

\* _scanHashed, after the inner scan: "hash" is emitted with the outcome
HashOutcome ==
  /\ Running
  /\ Top.stage = "hashwait"
  /\ LET v == validate(Top.bottle)
         args == HashArgs(v.valid, v.hex)
         h == IF tool.name \in {"unpack", "list"} THEN UnpackOnHash(us, args)
              ELSE [us |-> us, err |-> NoError]
     IN /\ rlog' = rlog \o <<Event("hash", Top.id, args)>>
        /\ us' = h.us
        /\ IF h.err = NoError
           THEN /\ rstack' = WithTop([Top EXCEPT !.idx = 2, !.stage = "end"])
                /\ UNCHANGED <<phase, scanres>>
           ELSE /\ Reject(h.err)
                /\ UNCHANGED rstack
  /\ UNCHANGED <<xvars, argv, wvars, archive, tool, outfs>>

SupportedCodecs == {COMPRESSION_LZMA2, COMPRESSION_SNAPPY}

\* a decompress() that knows every tag
decompressAnyTag(tag) == TRUE

\* decompress(): the decoder is selected by the tag of the header
decompressKnowsTag(tag) == tag \in SupportedCodecs

\* _scanCompressed: bottle.decompress() hands over the inner bottle
ScanCompressed ==
  /\ Running
  /\ Top.stage = "compressed"
  /\ Top.bottle.subs[1].kind = "zip"
  /\ decompressKnowsTag(Top.bottle.header.tag)
  /\ Scan(WithTop([Top EXCEPT !.idx = 1, !.stage = "end"]),
          Top.bottle.subs[1].bottle, scanres, phase)
  /\ UNCHANGED <<xvars, argv, wvars, archive, tool>>

\* _scanCompressed: bottle.decompress() fails on a tag that names no codec,
\* and with it the promise of scan; nothing is emitted
ScanCompressedFail ==
  /\ Running
  /\ Top.stage = "compressed"
  /\ ~decompressKnowsTag(Top.bottle.header.tag)
  /\ Reject("UnsupportedCodec")
  /\ UNCHANGED <<xvars, argv, wvars, archive, tool, rstack, rlog, us, outfs>>

\* _skipBottle: the next substream is piped into a NullSinkStream, and then
\* the callback calls skipBottle, a name that is not defined
SkipDrain ==
  /\ Running
  /\ Top.stage = "skip"
  /\ Top.idx < Len(Top.bottle.subs)
  /\ rlog' = rlog \o <<Event("skipped", Top.id, <<>>)>>
  /\ rstack' = WithTop([Top EXCEPT !.idx = @ + 1])
  /\ Reject("ReferenceError: skipBottle is not defined")
  /\ UNCHANGED <<xvars, argv, wvars, archive, tool, us, outfs>>

\* the stream handed to readBottleFromStream or decompress does not decode
ScanStreamFail ==
  /\ Running
  /\ Top.stage \in {"folder", "hashed", "compressed"}
  /\ Top.idx < Len(Top.bottle.subs)
  /\ Top.bottle.subs[Top.idx + 1].kind = "garbled"
  /\ Reject("MalformedHeader")
  /\ UNCHANGED <<xvars, argv, wvars, archive, tool, rstack, rlog, us, outfs>>

\* a scan whose promise is fulfilled without the scan of the bottle inside:
\* a bottle that has handed its inner bottle on ends before it
EndBottleOuterFirst ==
  /\ Running
  /\ Top.stage = "end"
  /\ LET k == IF Len(rstack) > 1 /\ rstack[Len(rstack) - 1].stage = "end"
              THEN Len(rstack) - 1 ELSE Len(rstack)
         f == rstack[k]
         rest == SubSeq(rstack, 1, k - 1) \o SubSeq(rstack, k + 1, Len(rstack))
     IN /\ rlog' = rlog \o <<Event("end-bottle", f.id, <<BottleV(f.bottle)>>)>>
        /\ us' = IF tool.name = "unpack" THEN UnpackOnEnd(us, f.bottle)
                 ELSE IF tool.name = "list" THEN ListOnEnd(us, f.bottle)
                 ELSE us
        /\ rstack' = rest
        /\ IF rest = <<>>
           THEN /\ scanres' = [st |-> "resolved", err |-> NoError]
                /\ phase' = "done"
           ELSE UNCHANGED <<scanres, phase>>
  /\ UNCHANGED <<xvars, argv, wvars, archive, tool, outfs>>

\* scan: the bottle's promise is fulfilled, "end-bottle" is emitted; after
\* the outermost bottle the promise of scanStream is fulfilled
EndBottle ==
  /\ Running
  /\ Top.stage = "end"
  /\ rlog' = rlog \o <<Event("end-bottle", Top.id, <<BottleV(Top.bottle)>>)>>
  /\ us' = IF tool.name = "unpack" THEN UnpackOnEnd(us, Top.bottle)
           ELSE IF tool.name = "list" THEN ListOnEnd(us, Top.bottle)
           ELSE us
  /\ rstack' = Below
  /\ IF Below = <<>>
     THEN /\ scanres' = [st |-> "resolved", err |-> NoError]
          /\ phase' = "done"
     ELSE UNCHANGED <<scanres, phase>>
  /\ UNCHANGED <<xvars, argv, wvars, archive, tool, outfs>>

\* -------------------------------------------------- damage to an archive

Garbled(s) == [kind |-> "garbled", bottle |-> s.bottle]
ReplaceSub(b, i, s) == [b EXCEPT !.subs[i] = s]

\* Corruptions(b): the bottle b with one stored byte changed: the byte that
\* holds the bottle's type (it then reads as a type no reader knows), the
\* codec tag of a compressed bottle (it then names no codec), a
\* header number, a content byte, or a byte of framing that makes a nested
\* stream undecodable.  The digest that ends a hashed bottle is not touched.
RECURSIVE Corruptions(_)
SubCorruptions(s) ==
  IF s.kind = "data"
  THEN {[s EXCEPT !.data[i] = @ + 1] : i \in 1..Len(s.data)}
  ELSE {Garbled(s)} \cup {[s EXCEPT !.bottle = c] : c \in Corruptions(s.bottle)}
Corruptions(b) ==
  {[b EXCEPT !.type = TYPE_UNKNOWN]}
  \cup (IF b.type = TYPE_COMPRESSED
        THEN {[b EXCEPT !.header.tag = UnknownCodec]} ELSE {})
  \cup (IF b.type = TYPE_FILE
        THEN {[b EXCEPT !.header.mode = Some(@[1] + 1)]} ELSE {})
  \cup UNION {{ReplaceSub(b, i, s) : s \in SubCorruptions(b.subs[i])}
              : i \in {j \in 1..Len(b.subs) :
                         ~(b.type = TYPE_HASHED /\ j = 2)}}

\* what pack wrote
Written == assemblePipes(PipeOptions(argv), BottleOf(<<>>))
Pristine == phase # "packfailed" /\ archive = Written

\* at most this many entries in an input whose archive gets damaged or
\* that is packed with other than the default options
MaxOptNodes == 1

InputSize(paths) == ForestCount(paths) + (IF Len(paths) > 1 THEN 1 ELSE 0)

\* one stored byte of the archive file changes between pack and unpack
Corrupt ==
  /\ phase = "packed"
  /\ Pristine
  /\ InputSize(argv.paths) <= MaxOptNodes
  /\ archive' \in Corruptions(archive)
  /\ UNCHANGED <<xvars, argv, phase, wvars, tool, rvars>>

\* ----------------------------------------------------- the specification

NoBottle == [type |-> "none", header |-> NoHeader, subs |-> <<>>]

PackOptions ==
  [tool : {"4pack", "qpack"}, hash : BOOLEAN, compress : BOOLEAN,
   snappy : BOOLEAN, encrypt : {None, Some(Recipient)},
   password : {None, Some(Password)}]

DefaultOptions ==
  {o \in PackOptions : o.compress /\ ~o.snappy /\ o.encrypt = None
                       /\ o.password = None}

WithPaths(o, paths) ==
  [tool |-> o.tool, hash |-> o.hash, compress |-> o.compress,
   snappy |-> o.snappy, encrypt |-> o.encrypt, password |-> o.password,
   paths |-> paths]

\* the command lines of pack: one path or several
PathLists ==
  {<<t>> : t \in Trees(MaxNodes)}
  \cup {f \in Forests(MaxNodes - 1, MaxKids) : Len(f) > 1}

Inputs ==
  {WithPaths(o, ps) : o \in DefaultOptions, ps \in PathLists}
  \cup {WithPaths(o, ps) : o \in PackOptions,
                           ps \in {q \in PathLists : InputSize(q) <= MaxOptNodes}}

\* who reads the archive: unpack into an empty output folder, the list
\* tool, or a bare ArchiveReader; the last two with the default processFile
\* What unpack may find in its output folder: nothing, or a file by one of
\* the names.
ExistingFile == [kind |-> "file", data |-> <<99>>, mode |-> 384]
Existing == {<<>>} \cup {(<<nm>> :> ExistingFile) : nm \in Names}

\* --password: none, the one used at pack time, or another one
ReadPasswords == {None, Some(Password), Some(WrongPassword)}

Tools ==
  {[name |-> "scan", force |-> FALSE, existing |-> <<>>, password |-> None]}
  \cup {[name |-> nm, force |-> FALSE, existing |-> <<>>, password |-> pw] :
          nm \in {"list", "unpack"}, pw \in ReadPasswords}
  \cup {[name |-> "unpack", force |-> f, existing |-> e, password |-> None] :
          f \in BOOLEAN, e \in Existing}

\* no codec at work
NoCodec == [pc |-> "none"]

\* qpack.coffee not run
NoQpack == [t |-> <<>>, b |-> <<>>, failed |-> NoError]

\* no bottle reader on its own
NoReader == [lens |-> <<>>, idx |-> 0, left |-> 0, open |-> FALSE, log |-> <<>>]

\* no call of decryptKey: the reader makes none
NoResult == [st |-> "pending", v |-> <<>>]
NoKeyCall ==
  [tool |-> "none", keymap |-> <<>>, password |-> None, identity |-> None,
   status |-> [err |-> NoError, name |-> ""], pc |-> "none",
   calls |-> <<>>, result |-> NoResult]

Init ==
  /\ argv \in Inputs
  /\ phase = "pack"
  /\ wt = <<>>
  /\ wlog = <<>>
  /\ archive = NoBottle
  /\ tool \in Tools
  /\ (tool.force \/ tool.existing # <<>> \/ tool.password # None)
       => InputSize(argv.paths) <= MaxOptNodes
  /\ rstack = <<>>
  /\ rlog = <<>>
  /\ scanres = [st |-> "idle", err |-> NoError]
  /\ us = InitUnpackState
  /\ outfs = tool.existing
  /\ dk = NoKeyCall
  /\ br = NoReader
  /\ qw = NoQpack
  /\ cv = NoCodec

Pack ==
  \/ archiveFile
  \/ archiveFiles
  \/ \E p \in DOMAIN wt : StatDone(p)
  \/ \E p \in DOMAIN wt : ReaddirDone(p)
  \/ \E p \in DOMAIN wt : ForeachNext(p)
  \/ \E p \in DOMAIN wt : OpenDone(p)
  \/ \E p \in DOMAIN wt : ReadChunk(p)
  \/ \E p \in DOMAIN wt : FileEnd(p)
  \/ \E p \in DOMAIN wt : FolderEnd(p)
  \/ \E p \in DOMAIN wt : FsFail(p)
  \/ PackFinish

Read ==
  \/ scanStream
  \/ ScanFolderChild
  \/ ScanNoMore
  \/ ScanFileData
  \/ UnpackOpenDone
  \/ UnpackOpenFail
  \/ PipeChunk
  \/ ProcessFileDone
  \/ ScanHashed
  \/ HashOutcome
  \/ ScanCompressed
  \/ ScanCompressedFail
  \/ SkipDrain
  \/ ScanStreamFail
  \/ EndBottle

Next == Pack \/ Corrupt \/ Read

Spec == Init /\ [][Next]_vars

\* ------------------------------------------------------------ decryptKey

\* the keybase users of the model
Identities == {"alice", "bob"}
\* `keybase:${identity}`
Self(identity) == "keybase:" \o identity
\* the session key as keybase encrypted it for one recipient
EncryptedKey(r) == <<"encrypted", r>>
\* the key maps an encrypted bottle's header can hold: the recipients and,
\* for each, the encrypted key; none in password mode
KeyMaps ==
  {[r \in rs |-> EncryptedKey(r)] : rs \in SUBSET {Self(i) : i \in Identities}}

\* what `keybase status` can come to in Keybaser.check
KeybaseStatus ==
  {[err |-> NoError, name |-> i] : i \in Identities}
  \cup {[err |-> e, name |-> ""] :
          e \in {"Keybase exit code 1", "Keybase is not configured.",
                 "You aren't currently logged in to keybase.",
                 "Can't determine your keybase username.",
                 "Can't find keybase binary."}}

\* the tools that define a decryptKey: 4unpack's has no password branch
KeyTools == {"4unpack", "list", "qunpack"}

KeyCalls ==
  [tool : KeyTools, keymap : KeyMaps, password : {None, Some(Password)},
   identity : {None} \cup {Some(i) : i \in Identities},
   status : KeybaseStatus, pc : {"idle"}, calls : {<<>>},
   result : {NoResult}]

\* a lookup that takes whatever entry the key map has
KeyEntryAny(keymap, self) ==
  IF DOMAIN keymap = {} THEN None
  ELSE Some(keymap[CHOOSE r \in DOMAIN keymap : TRUE])

\* keymap[self], or nothing
KeyEntry(keymap, self) ==
  IF self \in DOMAIN keymap THEN Some(keymap[self]) ELSE None

NoKeyError(keymap, self) ==
  [msg |-> "No encryption key for", self |-> self, only |-> DOMAIN keymap]

\* the rest of the program, as a tool's reader starts with it
Idle ==
  /\ argv = WithPaths([tool |-> "qpack", hash |-> TRUE, compress |-> TRUE,
                       snappy |-> FALSE, encrypt |-> Some(Recipient),
                       password |-> None], <<>>)
  /\ phase = "key"
  /\ wt = <<>>
  /\ wlog = <<>>
  /\ archive = NoBottle
  /\ tool = [name |-> "unpack", force |-> FALSE, existing |-> <<>>,
             password |-> None]
  /\ rstack = <<>>
  /\ rlog = <<>>
  /\ scanres = [st |-> "idle", err |-> NoError]
  /\ us = InitUnpackState
  /\ outfs = <<>>

IdleUnchanged ==
  UNCHANGED <<argv, phase, wt, wlog, archive, tool, rstack, rlog, scanres,
              us, outfs>>

KeyUnchanged == IdleUnchanged /\ UNCHANGED <<br, qw, cv>>

\* decryptKey(keymap): with an empty key map the password is needed; with
\* recipients, keybaser.check() comes first
decryptKey ==
  /\ dk.pc = "idle"
  /\ IF dk.tool # "4unpack" /\ DOMAIN dk.keymap = {}
     THEN IF dk.password = None
          THEN dk' = [dk EXCEPT !.pc = "done",
                        !.result = [st |-> "thrown", v |-> "No password provided."]]
          ELSE dk' = [dk EXCEPT !.pc = "pbkdf2"]
     ELSE dk' = [dk EXCEPT !.pc = "check"]
  /\ KeyUnchanged

\* crypto.pbkdf2(password, SALT, 10000, 48) calls back with the key
Pbkdf2Done ==
  /\ dk.pc = "pbkdf2"
  /\ dk' = [dk EXCEPT !.pc = "done",
              !.result = [st |-> "resolved", v |-> <<"pbkdf2", dk.password[1]>>]]
  /\ KeyUnchanged

\* Keybaser.check with the identity known from an earlier check
KeybaseCheckCached ==
  /\ dk.pc = "check"
  /\ dk.identity # None
  /\ dk' = [dk EXCEPT !.pc = "lookup"]
  /\ KeyUnchanged

\* Keybaser.check: `keybase status` has run; the identity is set, or the
\* error goes to the caller of decryptKey
KeybaseStatusDone ==
  /\ dk.pc = "check"
  /\ dk.identity = None
  /\ IF dk.status.err # NoError
     THEN dk' = [dk EXCEPT !.pc = "done", !.calls = @ \o <<<<"status">>>>,
                   !.result = [st |-> "rejected", v |-> dk.status.err]]
     ELSE dk' = [dk EXCEPT !.pc = "lookup", !.calls = @ \o <<<<"status">>>>,
                   !.identity = Some(dk.status.name)]
  /\ KeyUnchanged

\* the callback after check: the entry of `keybase:${identity}` goes to
\* keybaser.decrypt, or the error is thrown
KeyLookup ==
  /\ dk.pc = "lookup"
  /\ LET self == Self(dk.identity[1])
         entry == KeyEntry(dk.keymap, self)
     IN IF entry = None
        THEN dk' = [dk EXCEPT !.pc = "done",
                      !.result = [st |-> "rejected",
                                  v |-> NoKeyError(dk.keymap, self)]]
        ELSE dk' = [dk EXCEPT !.pc = "decrypt",
                      !.calls = @ \o <<<<"decrypt", entry[1]>>>>]
  /\ KeyUnchanged

\* Keybaser.decrypt: `keybase decrypt` has exited
KeybaseDecryptDone ==
  /\ dk.pc = "decrypt"
  /\ \E code \in {0, 1} :
       dk' = [dk EXCEPT !.pc = "done",
                !.result = IF code = 0
                           THEN [st |-> "resolved",
                                 v |-> <<"decrypted", Last(dk.calls)[2]>>]
                           ELSE [st |-> "rejected", v |-> "Keybase exit code 1"]]
  /\ KeyUnchanged

\* a tool whose reader hands a key map to decryptKey
InitKey ==
  /\ Idle
  /\ dk \in KeyCalls
  /\ br = NoReader
  /\ qw = NoQpack
  /\ cv = NoCodec

NextKey ==
  \/ decryptKey
  \/ Pbkdf2Done
  \/ KeybaseCheckCached
  \/ KeybaseStatusDone
  \/ KeyLookup
  \/ KeybaseDecryptDone

SpecKey == InitKey /\ [][NextKey]_vars

\* ---------------------------------------------------- the bottle reader

\* at most this many substreams in the bottle read on its own, and at most
\* this many calls of next_substream on it
MaxSubs == 2
MaxCalls == 4

\* the lengths of the substreams of the bottle
SubLens == UNION {[1..n -> 0..MaxLen] : n \in 0..MaxSubs}

\* a reader that hands out the next substream whatever became of the last
SequencingUnchecked(r) == FALSE

\* the substream handed out last has not been drained or skipped to its end
SequencingViolated(r) == r.open

ReaderUnchanged == IdleUnchanged /\ UNCHANGED <<dk, qw, cv>>

\* next_substream(): the next framed substream, none after the last one, or
\* BottleSequencingViolation while the last one is still open
NextSubstream ==
  /\ Len(br.log) < MaxCalls
  /\ LET call == [open |-> br.open, left |-> br.left, idx |-> br.idx]
     IN IF SequencingViolated(br)
        THEN br' = [br EXCEPT !.log =
                      @ \o <<[call |-> call, ret |-> "BottleSequencingViolation"]>>]
        ELSE IF br.idx < Len(br.lens)
        THEN br' = [br EXCEPT !.idx = @ + 1, !.left = br.lens[br.idx + 1],
                              !.open = TRUE,
                              !.log = @ \o <<[call |-> call, ret |-> "stream"]>>]
        ELSE br' = [br EXCEPT !.log = @ \o <<[call |-> call, ret |-> "none"]>>]
  /\ ReaderUnchanged

\* the consumer of the substream reads its next bytes
SubstreamRead ==
  /\ br.open
  /\ br.left > 0
  /\ br' = [br EXCEPT !.left = IF @ > ChunkLen THEN @ - ChunkLen ELSE 0]
  /\ ReaderUnchanged

\* the consumer reads the end of the substream: it is drained
SubstreamEnd ==
  /\ br.open
  /\ br.left = 0
  /\ br' = [br EXCEPT !.open = FALSE]
  /\ ReaderUnchanged

\* the substream is skipped to its end
SubstreamSkip ==
  /\ br.open
  /\ br.left > 0
  /\ br' = [br EXCEPT !.left = 0, !.open = FALSE]
  /\ ReaderUnchanged

InitBottle ==
  /\ Idle
  /\ dk = NoKeyCall
  /\ br \in [lens : SubLens, idx : {0}, left : {0}, open : {FALSE},
              log : {<<>>}]
  /\ qw = NoQpack
  /\ cv = NoCodec

NextBottle ==
  \/ NextSubstream
  \/ SubstreamRead
  \/ SubstreamEnd
  \/ SubstreamSkip

SpecBottle == InitBottle /\ [][NextBottle]_vars

\* ------------------------------------------------------- qpack.coffee

\* What s.writeData(null, stats.size) can come to: writeFileBottle is handed
\* no stream for a folder, and WritableBottle says nothing about that case.
\* The promise is fulfilled (with nothing written), or it is rejected, or
\* the call throws.
NullWriteOutcomes == {"resolves", "rejects", "throws"}

\* new bottle_stream.WritableBottle(TYPE_FILE, header): what was written
\* into it, its calls of close(), what it held at its first close, and the
\* writes it refused with ClosedBottle
NewWritableBottle(nullwrite) ==
  [writes |-> <<>>, closes |-> 0, atclose |-> <<>>, late |-> 0,
   nullwrite |-> nullwrite]

QTask(pc) == [pc |-> pc, queue |-> <<>>, running |-> FALSE]

\* s.close()
WritableClose(h) ==
  [h EXCEPT !.closes = @ + 1,
            !.atclose = IF h.closes = 0 THEN h.writes ELSE @]

\* pushBottle(outStream, bottle) for the bottle of the entry at p: into the
\* WritableBottle of its folder, which refuses it once closed, or, at the
\* top, piped to the output file
pushBottle(w, p) ==
  IF p = <<>> THEN w
  ELSE IF w.b[Parent(p)].closes > 0
  THEN [w EXCEPT !.b[Parent(p)].late = @ + 1, !.failed = "ClosedBottle"]
  ELSE [w EXCEPT !.b[Parent(p)].writes = @ \o <<Last(p)>>]

\* writeFileBottle(stats, null): the bottle of a folder, with writeData
\* called on no stream
FolderBottleOpened(w, p, o) ==
  IF o = "throws"
  THEN [w EXCEPT !.failed = "TypeError"]
  ELSE [w EXCEPT !.b = @ @@ (p :> NewWritableBottle(o))]

QRunning == phase = "qpack" /\ qw.failed = NoError

QUnchanged == IdleUnchanged /\ UNCHANGED <<dk, br, cv>>

\* main: several paths go into a fake folder made by writeFileBottle(stats,
\* null) and are archived into it; one path is archived to the output
QpackMain ==
  /\ QRunning
  /\ qw.t = <<>>
  /\ IF Len(argv.paths) > 1
     THEN \E o \in NullWriteOutcomes :
            qw' = [FolderBottleOpened(qw, <<>>, o) EXCEPT
                     !.t = (<<>> :> [QTask("filling") EXCEPT
                                       !.queue = ListingOrder(argv.paths)])]
     ELSE qw' = [qw EXCEPT !.t = (<<>> :> QTask("stat"))]
  /\ QUnchanged

\* archiveFile, the fs.stat callback: archiveFolder for a folder (the
\* bottle is made, fs.readdir is pending), fs.open for a file
QpackStatDone(p) ==
  /\ QRunning
  /\ p \in DOMAIN qw.t
  /\ qw.t[p].pc = "stat"
  /\ IF NodeAt(p).kind # "file"
     THEN \E o \in NullWriteOutcomes :
            qw' = [FolderBottleOpened(qw, p, o) EXCEPT !.t[p].pc = "readdir"]
     ELSE qw' = [qw EXCEPT !.t[p].pc = "open"]
  /\ QUnchanged

\* writeFileBottle: the promise of writeData(null, ...) is fulfilled, and
\* its callback closes the bottle
QpackNullWriteDone(p) ==
  /\ QRunning
  /\ p \in DOMAIN qw.b
  /\ qw.b[p].nullwrite = "resolves"
  /\ qw' = [qw EXCEPT !.b[p] = [WritableClose(@) EXCEPT !.nullwrite = "closed"]]
  /\ QUnchanged

\* archiveFolder, the fs.readdir callback: the folder's bottle is pushed
\* into the bottle around it, and archiveFiles starts on the listing
QpackReaddirDone(p) ==
  /\ QRunning
  /\ p \in DOMAIN qw.t
  /\ qw.t[p].pc = "readdir"
  /\ qw' = [pushBottle(qw, p) EXCEPT
              !.t[p].pc = "filling",
              !.t[p].queue = ListingOrder(NodeAt(p).kids)]
  /\ QUnchanged

\* archiveFiles: the next name is shifted off the list and archived
QpackArchiveFiles(p) ==
  /\ QRunning
  /\ p \in DOMAIN qw.t
  /\ qw.t[p].pc = "filling"
  /\ qw.t[p].queue # <<>>
  /\ ~qw.t[p].running
  /\ LET k == Head(qw.t[p].queue)
     IN qw' = [qw EXCEPT !.t = [@ EXCEPT ![p].queue = Tail(@),
                                         ![p].running = TRUE]
                                @@ ((p \o <<k>>) :> QTask("stat"))]
  /\ QUnchanged

\* archiveFile, the fs.open callback: writeFileBottle(stats, stream) makes
\* the file's bottle, and it is pushed into the bottle around it
QpackOpenDone(p) ==
  /\ QRunning
  /\ p \in DOMAIN qw.t
  /\ qw.t[p].pc = "open"
  /\ qw' = [pushBottle([qw EXCEPT !.b = @ @@ (p :> NewWritableBottle("none"))], p)
              EXCEPT !.t[p].pc = "writing"]
  /\ QUnchanged

\* the entry at p is through: archiveFiles goes on in its folder
QpackDone(w, p) ==
  IF p = <<>> THEN [w EXCEPT !.t[p].pc = "done"]
  ELSE [w EXCEPT !.t[p].pc = "done", !.t[Parent(p)].running = FALSE]

\* writeFileBottle: the file's data is written, the promise of writeData
\* is fulfilled, and its callback closes the bottle
QpackFileWritten(p) ==
  /\ QRunning
  /\ p \in DOMAIN qw.t
  /\ qw.t[p].pc = "writing"
  /\ qw' = QpackDone([qw EXCEPT !.b[p] =
                        WritableClose([@ EXCEPT !.writes = <<"data">>])], p)
  /\ QUnchanged

\* archiveFolder: archiveFiles is through the listing, and its callback
\* closes the folder's bottle
QpackFolderClose(p) ==
  /\ QRunning
  /\ p \in DOMAIN qw.t
  /\ qw.t[p].pc = "filling"
  /\ qw.t[p].queue = <<>>
  /\ ~qw.t[p].running
  /\ qw' = QpackDone([qw EXCEPT !.b[p] = WritableClose(@)], p)
  /\ QUnchanged

\* the command lines of qpack.coffee
InitQpack ==
  /\ argv \in {WithPaths(o, ps) : o \in {d \in DefaultOptions :
                                           d.tool = "qpack" /\ d.hash},
                                  ps \in PathLists}
  /\ phase = "qpack"
  /\ wt = <<>>
  /\ wlog = <<>>
  /\ archive = NoBottle
  /\ tool = [name |-> "scan", force |-> FALSE, existing |-> <<>>,
             password |-> None]
  /\ rstack = <<>>
  /\ rlog = <<>>
  /\ scanres = [st |-> "idle", err |-> NoError]
  /\ us = InitUnpackState
  /\ outfs = <<>>
  /\ dk = NoKeyCall
  /\ br = NoReader
  /\ qw = NoQpack
  /\ cv = NoCodec

NextQpack ==
  \/ QpackMain
  \/ \E p \in DOMAIN qw.t : QpackStatDone(p)
  \/ \E p \in DOMAIN qw.b : QpackNullWriteDone(p)
  \/ \E p \in DOMAIN qw.t : QpackReaddirDone(p)
  \/ \E p \in DOMAIN qw.t : QpackArchiveFiles(p)
  \/ \E p \in DOMAIN qw.t : QpackOpenDone(p)
  \/ \E p \in DOMAIN qw.t : QpackFileWritten(p)
  \/ \E p \in DOMAIN qw.t : QpackFolderClose(p)

SpecQpack == InitQpack /\ [][NextQpack]_vars

\* ------------------------------------------------- the header of a file

\* FIELDS: the ids of the fields of a FILE header, by type
FILENAME == 0
MIME_TYPE == 1
POSIX_USERNAME == 2
POSIX_GROUPNAME == 3
SIZE == 0
POSIX_MODE == 1
CREATED_NANOS == 2
MODIFIED_NANOS == 3
ACCESSED_NANOS == 4
IS_FOLDER == 0

TYPE_STRING == "string"
TYPE_ZINT == "zint"
TYPE_BOOL == "bool"

\* Header.addString, addNumber, addBool: one more field
StringField(id, str) == [type |-> TYPE_STRING, id |-> id, list |-> <<str>>, number |-> 0]
NumberField(id, n) == [type |-> TYPE_ZINT, id |-> id, list |-> <<>>, number |-> n]
BoolField(id) == [type |-> TYPE_BOOL, id |-> id, list |-> <<>>, number |-> 0]

\* `if stats.x? then m.addNumber(id, stats.x)`
NumberIf(id, opt) == IF opt = None THEN <<>> ELSE <<NumberField(id, opt[1])>>
StringIf(id, opt) == IF opt = None THEN <<>> ELSE <<StringField(id, opt[1])>>

\* an encoder that writes the size of every entry
encodeFileHeaderSized(stats) ==
  <<StringField(FILENAME, stats.filename)>>
  \o NumberIf(POSIX_MODE, stats.mode)
  \o NumberIf(CREATED_NANOS, stats.createdNanos)
  \o NumberIf(MODIFIED_NANOS, stats.modifiedNanos)
  \o NumberIf(ACCESSED_NANOS, stats.accessedNanos)
  \o (IF stats.folder THEN <<BoolField(IS_FOLDER)>> ELSE <<>>)
  \o NumberIf(SIZE, stats.size)
  \o StringIf(POSIX_USERNAME, stats.username)
  \o StringIf(POSIX_GROUPNAME, stats.groupname)

\* encodeFileHeader(stats): the fields of the Header, in the order added
encodeFileHeader(stats) ==
  <<StringField(FILENAME, stats.filename)>>
  \o NumberIf(POSIX_MODE, stats.mode)
  \o NumberIf(CREATED_NANOS, stats.createdNanos)
  \o NumberIf(MODIFIED_NANOS, stats.modifiedNanos)
  \o NumberIf(ACCESSED_NANOS, stats.accessedNanos)
  \o (IF stats.folder THEN <<BoolField(IS_FOLDER)>>
      ELSE <<NumberField(SIZE, stats.size[1])>>)
  \o StringIf(POSIX_USERNAME, stats.username)
  \o StringIf(POSIX_GROUPNAME, stats.groupname)

\* rv = { folder: false }: every other key is undefined
EmptyDecoded ==
  [folder |-> FALSE, filename |-> None, mimeType |-> None, username |-> None,
   groupname |-> None, size |-> None, mode |-> None, createdNanos |-> None,
   modifiedNanos |-> None, accessedNanos |-> None]

\* a decoder that takes any BOOL field for the folder flag
decodeFieldAnyBool(rv, field) ==
  CASE field.type = TYPE_STRING ->
         (CASE field.id = FILENAME -> [rv EXCEPT !.filename = Some(field.list[1])]
            [] field.id = MIME_TYPE -> [rv EXCEPT !.mimeType = Some(field.list[1])]
            [] field.id = POSIX_USERNAME -> [rv EXCEPT !.username = Some(field.list[1])]
            [] field.id = POSIX_GROUPNAME -> [rv EXCEPT !.groupname = Some(field.list[1])]
            [] OTHER -> rv)
    [] field.type = TYPE_ZINT ->
         (CASE field.id = SIZE -> [rv EXCEPT !.size = Some(field.number)]
            [] field.id = POSIX_MODE -> [rv EXCEPT !.mode = Some(field.number)]
            [] field.id = CREATED_NANOS -> [rv EXCEPT !.createdNanos = Some(field.number)]
            [] field.id = MODIFIED_NANOS -> [rv EXCEPT !.modifiedNanos = Some(field.number)]
            [] field.id = ACCESSED_NANOS -> [rv EXCEPT !.accessedNanos = Some(field.number)]
            [] OTHER -> rv)
    [] field.type = TYPE_BOOL -> [rv EXCEPT !.folder = TRUE]
    [] OTHER -> rv

\* decodeFileHeader, the body of its loop: the switch on the field's type
\* and id
decodeField(rv, field) ==
  CASE field.type = TYPE_STRING ->
         (CASE field.id = FILENAME -> [rv EXCEPT !.filename = Some(field.list[1])]
            [] field.id = MIME_TYPE -> [rv EXCEPT !.mimeType = Some(field.list[1])]
            [] field.id = POSIX_USERNAME -> [rv EXCEPT !.username = Some(field.list[1])]
            [] field.id = POSIX_GROUPNAME -> [rv EXCEPT !.groupname = Some(field.list[1])]
            [] OTHER -> rv)
    [] field.type = TYPE_ZINT ->
         (CASE field.id = SIZE -> [rv EXCEPT !.size = Some(field.number)]
            [] field.id = POSIX_MODE -> [rv EXCEPT !.mode = Some(field.number)]
            [] field.id = CREATED_NANOS -> [rv EXCEPT !.createdNanos = Some(field.number)]
            [] field.id = MODIFIED_NANOS -> [rv EXCEPT !.modifiedNanos = Some(field.number)]
            [] field.id = ACCESSED_NANOS -> [rv EXCEPT !.accessedNanos = Some(field.number)]
            [] OTHER -> rv)
    [] field.type = TYPE_BOOL ->
         (CASE field.id = IS_FOLDER -> [rv EXCEPT !.folder = TRUE]
            [] OTHER -> rv)
    [] OTHER -> rv

\* decodeFileHeader(m): the loop over m.fields
RECURSIVE decodeFields(_, _)
decodeFields(rv, fields) ==
  IF fields = <<>> THEN rv
  ELSE decodeFields(decodeField(rv, Head(fields)), Tail(fields))
decodeFileHeader(m) == decodeFields(EmptyDecoded, m)

\* The metadata records the tools make: what fs.stat and the user database
\* give for a file or a folder (a file always has a size), and the record
\* of the fake folder (no size, no names).
MetadataRecords ==
  {st \in [filename : Names, folder : BOOLEAN,
           size : {None, Some(0), Some(MaxLen)},
           mode : {None, Some(0), Some(420)},
           createdNanos : {None, Some(NanosPerMilli)},
           modifiedNanos : {None, Some(2 * NanosPerMilli)},
           accessedNanos : {None, Some(3 * NanosPerMilli)},
           username : {None, Some("root")},
           groupname : {None, Some("wheel")}] :
     /\ ~st.folder => st.size # None
     /\ (st.createdNanos = None) = (st.modifiedNanos = None)
     /\ (st.createdNanos = None) = (st.accessedNanos = None)}

\* fields that a FILE header does not know: an id out of range for each
\* type, and a type no decoder knows
UnknownId == ACCESSED_NANOS + 5
UnknownFields ==
  {StringField(UnknownId, "x"), NumberField(UnknownId, 7), BoolField(UnknownId),
   [type |-> "unknown", id |-> 0, list |-> <<>>, number |-> 0]}

CodecUnchanged == IdleUnchanged /\ UNCHANGED <<dk, br, qw>>

\* encodeFileHeader(stats)
EncodeFileHeader ==
  /\ cv.pc = "stats"
  /\ cv' = [cv EXCEPT !.pc = "encoded", !.m = encodeFileHeader(cv.stats)]
  /\ CodecUnchanged

\* the header comes with one field more, of a type or id that a FILE header
\* does not know, anywhere among the others
UnknownFieldAdded ==
  /\ cv.pc = "encoded"
  /\ ~cv.injected
  /\ \E f \in UnknownFields, i \in 0..Len(cv.m) :
       cv' = [cv EXCEPT !.injected = TRUE,
                        !.m = SubSeq(cv.m, 1, i) \o <<f>>
                              \o SubSeq(cv.m, i + 1, Len(cv.m))]
  /\ CodecUnchanged

\* decodeFileHeader(m)
DecodeFileHeader ==
  /\ cv.pc = "encoded"
  /\ cv' = [cv EXCEPT !.pc = "decoded", !.rv = decodeFileHeader(cv.m)]
  /\ CodecUnchanged

InitFileHeader ==
  /\ Idle
  /\ dk = NoKeyCall
  /\ br = NoReader
  /\ qw = NoQpack
  /\ cv \in [pc : {"stats"}, stats : MetadataRecords, m : {<<>>},
              injected : {FALSE}, rv : {EmptyDecoded}]

NextFileHeader ==
  \/ EncodeFileHeader
  \/ UnknownFieldAdded
  \/ DecodeFileHeader

SpecFileHeader == InitFileHeader /\ [][NextFileHeader]_vars

\* ------------------------------------------------------------ the VarInt

\* the widest VarInt of the model, in bytes, and how far around each change
\* of length the values are taken
MaxVarIntBytes == 3
Spread == 12

\* the continuation bit of a byte; below it are the 7 magnitude bits
Continuation == 128

RECURSIVE Pow(_, _)
Pow(b, n) == IF n = 0 THEN 1 ELSE b * Pow(b, n - 1)

MaxVarInt == Pow(Continuation, MaxVarIntBytes) - 1

MalformedVarInt == "MalformedVarInt"

\* an encoder that fills every VarInt to the full width
encodeVarIntPadded(v) ==
  LET RECURSIVE pad(_, _)
      pad(x, n) == IF n = 1 THEN <<x % Continuation>>
                   ELSE <<(x % Continuation) + Continuation>>
                        \o pad(x \div Continuation, n - 1)
  IN pad(v, MaxVarIntBytes)

\* encode(value): 7 magnitude bits to a byte, the low ones first, the
\* continuation bit on every byte but the last
RECURSIVE encodeVarInt(_)
encodeVarInt(v) ==
  IF v < Continuation THEN <<v>>
  ELSE <<(v % Continuation) + Continuation>> \o encodeVarInt(v \div Continuation)

\* decode(byte_source), reading from position i with n bytes taken so far:
\* the value and the position after it, or MalformedVarInt when the source
\* ends in the middle or the chain is longer than the width
RECURSIVE decodeVarIntFrom(_, _, _, _)
decodeVarIntFrom(bytes, i, n, acc) ==
  IF i > Len(bytes) \/ n >= MaxVarIntBytes
  THEN [err |-> MalformedVarInt, value |-> 0, next |-> i]
  ELSE LET b == bytes[i]
           sum == acc + (b % Continuation) * Pow(Continuation, n)
       IN IF b >= Continuation THEN decodeVarIntFrom(bytes, i + 1, n + 1, sum)
          ELSE [err |-> NoError, value |-> sum, next |-> i + 1]
decodeVarInt(bytes) == decodeVarIntFrom(bytes, 1, 0, 0)

\* the values of the model: those around every change of encoded length,
\* with 0 and the maximum
VarIntValues ==
  UNION {{v \in (Pow(Continuation, k) - Spread)..(Pow(Continuation, k) + Spread) :
            v >= 0 /\ v <= MaxVarInt} : k \in 0..MaxVarIntBytes}

NoDecoded == [err |-> NoError, value |-> 0, next |-> 0]

VarIntEncode ==
  /\ cv.pc = "value"
  /\ cv' = [cv EXCEPT !.pc = "encoded", !.bytes = encodeVarInt(cv.v)]
  /\ CodecUnchanged

\* the source ends early: a proper prefix of the encoding is what is left
VarIntTruncate ==
  /\ cv.pc = "encoded"
  /\ ~cv.cut
  /\ \E k \in 0..(Len(cv.bytes) - 1) :
       cv' = [cv EXCEPT !.cut = TRUE, !.bytes = SubSeq(cv.bytes, 1, k)]
  /\ CodecUnchanged

VarIntDecode ==
  /\ cv.pc = "encoded"
  /\ cv' = [cv EXCEPT !.pc = "decoded", !.out = decodeVarInt(cv.bytes)]
  /\ CodecUnchanged

InitVarInt ==
  /\ Idle
  /\ dk = NoKeyCall
  /\ br = NoReader
  /\ qw = NoQpack
  /\ cv \in [pc : {"value"}, v : VarIntValues, bytes : {<<>>}, cut : {FALSE},
              out : {NoDecoded}]

NextVarInt ==
  \/ VarIntEncode
  \/ VarIntTruncate
  \/ VarIntDecode

SpecVarInt == InitVarInt /\ [][NextVarInt]_vars

\* ------------------------------------------------------- the header codec

\* the most fields of a header of the model
MaxFields == 3

\* type_class_tag:u8 of the three type classes, and the terminal marker
\* that says "no more fields"
WireTags == [string |-> 1, zint |-> 2, bool |-> 3, headerEnd |-> 0]

MalformedHeader == "MalformedHeader"

\* a field as the codec holds it: a STRING has its strings (each the bytes
\* of its UTF-8 form) in order, an INTEGER its number, a BOOLEAN nothing;
\* a field of a type class the codec does not know keeps its tag and its
\* payload as raw bytes
WireField(type, tag, id, list, number, raw) ==
  [type |-> type, tag |-> tag, id |-> id, list |-> list, number |-> number,
   raw |-> raw]
WireString(id, list) == WireField(TYPE_STRING, WireTags.string, id, list, 0, <<>>)
WireInteger(id, n) == WireField(TYPE_ZINT, WireTags.zint, id, <<>>, n, <<>>)
WireBoolean(id) == WireField(TYPE_BOOL, WireTags.bool, id, <<>>, 0, <<>>)
WireOpaque(tag, id, raw) == WireField("opaque", tag, id, <<>>, 0, raw)

RECURSIVE encodeStrings(_)
encodeStrings(list) ==
  IF list = <<>> THEN <<>>
  ELSE encodeVarInt(Len(Head(list))) \o Head(list) \o encodeStrings(Tail(list))

\* the payload of a field: the UTF-8 bytes of each string with a varint
\* byte length, a varint, nothing, or the raw bytes kept
Payload(f) ==
  CASE f.type = TYPE_STRING -> encodeStrings(f.list)
    [] f.type = TYPE_ZINT -> encodeVarInt(f.number)
    [] f.type = TYPE_BOOL -> <<>>
    [] OTHER -> f.raw

\* field := type_class_tag:u8, id:varint, length:varint, payload:bytes
encodeWireField(f) ==
  <<f.tag>> \o encodeVarInt(f.id) \o encodeVarInt(Len(Payload(f))) \o Payload(f)

RECURSIVE encodeWireFields(_)
encodeWireFields(fields) ==
  IF fields = <<>> THEN <<>>
  ELSE encodeWireField(Head(fields)) \o encodeWireFields(Tail(fields))

\* encode(header) -> bytes
encodeHeader(fields) == encodeWireFields(fields) \o <<WireTags.headerEnd>>

\* the strings of a STRING payload from position i on; not ok when the
\* payload ends inside a string
RECURSIVE decodeStrings(_, _)
decodeStrings(payload, i) ==
  IF i > Len(payload) THEN [ok |-> TRUE, list |-> <<>>]
  ELSE LET n == decodeVarIntFrom(payload, i, 0, 0)
       IN IF n.err # NoError \/ n.next + n.value - 1 > Len(payload)
          THEN [ok |-> FALSE, list |-> <<>>]
          ELSE LET rest == decodeStrings(payload, n.next + n.value)
               IN [ok |-> rest.ok,
                   list |-> <<SubSeq(payload, n.next, n.next + n.value - 1)>>
                            \o rest.list]

\* the fields of the type classes the codec knows, from tag, id and
\* payload: not ok when the payload is not one of the type class
decodeKnownField(tag, id, payload) ==
  CASE tag = WireTags.string ->
         LET strs == decodeStrings(payload, 1)
         IN [ok |-> strs.ok, fields |-> <<WireString(id, strs.list)>>]
    [] tag = WireTags.zint ->
         LET n == decodeVarInt(payload)
         IN [ok |-> n.err = NoError /\ n.next = Len(payload) + 1,
             fields |-> <<WireInteger(id, n.value)>>]
    [] tag = WireTags.bool ->
         [ok |-> payload = <<>>, fields |-> <<WireBoolean(id)>>]

KnownTags == {WireTags.string, WireTags.zint, WireTags.bool}

\* a decoder that keeps only the fields of the type classes it knows
decodeWireFieldKnown(tag, id, payload) ==
  IF tag \in KnownTags THEN decodeKnownField(tag, id, payload)
  ELSE [ok |-> TRUE, fields |-> <<>>]

\* one field from its tag, id and payload: a field of a type class the
\* codec does not know is kept as it came
decodeWireField(tag, id, payload) ==
  IF tag \in KnownTags THEN decodeKnownField(tag, id, payload)
  ELSE [ok |-> TRUE, fields |-> <<WireOpaque(tag, id, payload)>>]

HeaderFailure(i) == [err |-> MalformedHeader, fields |-> <<>>, next |-> i]

\* decode(byte_source) -> header: fields until the terminal marker
RECURSIVE decodeHeaderFrom(_, _, _)
decodeHeaderFrom(bytes, i, acc) ==
  IF i > Len(bytes) THEN HeaderFailure(i)
  ELSE IF bytes[i] = WireTags.headerEnd
  THEN [err |-> NoError, fields |-> acc, next |-> i + 1]
  ELSE LET id == decodeVarIntFrom(bytes, i + 1, 0, 0)
           length == decodeVarIntFrom(bytes, id.next, 0, 0)
           last == length.next + length.value - 1
       IN IF id.err # NoError \/ length.err # NoError \/ last > Len(bytes)
          THEN HeaderFailure(i)
          ELSE LET f == decodeWireField(bytes[i], id.value,
                                        SubSeq(bytes, length.next, last))
               IN IF ~f.ok THEN HeaderFailure(i)
                  ELSE decodeHeaderFrom(bytes, last + 1, acc \o f.fields)
decodeHeader(bytes) == decodeHeaderFrom(bytes, 1, <<>>)

\* the fields of the model's headers: strings of no, one and two bytes,
\* one and two to an id, in both orders; an id and a number of two bytes
\* as VarInt; an id no bottle kind uses
WireStrings == {<<>>, <<97>>, <<98, 99>>}
WireFields ==
  {WireString(id, <<x>>) : id \in {FILENAME, UnknownId}, x \in WireStrings}
  \cup {WireString(MIME_TYPE, <<x, y>>) : x, y \in WireStrings \ {<<>>}}
  \cup {WireInteger(id, n) : id \in {SIZE, 2 * Continuation},
                            n \in {0, Continuation + 1}}
  \cup {WireBoolean(IS_FOLDER), WireBoolean(UnknownId)}

RECURSIVE SeqsUpTo(_, _)
SeqsUpTo(S, n) ==
  IF n = 0 THEN {<<>>}
  ELSE LET shorter == SeqsUpTo(S, n - 1)
       IN shorter \cup {Append(q, x) : q \in shorter, x \in S}

\* the bytes of fields of type classes no codec of this format knows:
\* tag, id, length, payload
UnknownWireFields == {<<9, 5, 0>>, <<9, 0, 2, 255, 0>>, <<200, 129, 1, 1, 3>>}

HeaderEncode ==
  /\ cv.pc = "header"
  /\ cv' = [cv EXCEPT !.pc = "encoded", !.bytes = encodeHeader(cv.h)]
  /\ CodecUnchanged

\* the header comes with a field of an unknown type class after its i
\* first fields
HeaderUnknownAdded ==
  /\ cv.pc = "encoded"
  /\ ~cv.injected
  /\ \E raw \in UnknownWireFields, i \in 0..Len(cv.h) :
       cv' = [cv EXCEPT !.injected = TRUE,
                        !.bytes = encodeWireFields(SubSeq(cv.h, 1, i)) \o raw
                                  \o encodeHeader(SubSeq(cv.h, i + 1, Len(cv.h)))]
  /\ CodecUnchanged

HeaderDecode ==
  /\ cv.pc = "encoded"
  /\ cv' = [cv EXCEPT !.pc = "decoded", !.out = decodeHeader(cv.bytes)]
  /\ CodecUnchanged

\* the decoded header is encoded again
HeaderReencode ==
  /\ cv.pc = "decoded"
  /\ cv.out.err = NoError
  /\ cv' = [cv EXCEPT !.pc = "reencoded", !.again = encodeHeader(cv.out.fields)]
  /\ CodecUnchanged

InitHeader ==
  /\ Idle
  /\ dk = NoKeyCall
  /\ br = NoReader
  /\ qw = NoQpack
  /\ cv \in [pc : {"header"}, h : SeqsUpTo(WireFields, MaxFields),
              bytes : {<<>>}, injected : {FALSE},
              out : {HeaderFailure(0)}, again : {<<>>}]

NextHeader ==
  \/ HeaderEncode
  \/ HeaderUnknownAdded
  \/ HeaderDecode
  \/ HeaderReencode

SpecHeader == InitHeader /\ [][NextHeader]_vars

\* ------------------------------------------------------ the bottle framing

\* the longest chunk a writer of the model makes of content of unknown size
MaxChunk == 2

\* kind_tag:u8 is the place of the kind in this list
Kinds == <<TYPE_FILE, TYPE_HASHED, TYPE_ENCRYPTED, TYPE_COMPRESSED>>
KindTag(kind) == CHOOSE t \in DOMAIN Kinds : Kinds[t] = kind

\* what a reader finds where a substream may begin: a length-prefixed
\* block, a run of chunks, or the end-of-substreams marker. The wire
\* summary names the three and does not give their bytes; these are the
\* model's.
FrameTags == [block |-> 1, chunked |-> 2, bottleEnd |-> 0]

\* a writer of chunks that leaves out the zero-length chunk
RECURSIVE encodeChunksOpen(_, _)
encodeChunksOpen(data, c) ==
  IF data = <<>> THEN <<>>
  ELSE LET k == IF Len(data) < c THEN Len(data) ELSE c
       IN encodeVarInt(k) \o SubSeq(data, 1, k)
          \o encodeChunksOpen(SubSeq(data, k + 1, Len(data)), c)

\* chunk := length:varint, payload:bytes with length > 0, in pieces of at
\* most c bytes, ending in a zero-length chunk
RECURSIVE encodeChunks(_, _)
encodeChunks(data, c) ==
  IF data = <<>> THEN encodeVarInt(0)
  ELSE LET k == IF Len(data) < c THEN Len(data) ELSE c
       IN encodeVarInt(k) \o SubSeq(data, 1, k)
          \o encodeChunks(SubSeq(data, k + 1, Len(data)), c)

\* write_substream(byte_stream, known_length): a length-prefixed block when
\* the length is known (c = 0), chunks of at most c bytes when it is not
encodeSubstream(data, c) ==
  IF c = 0 THEN <<FrameTags.block>> \o encodeVarInt(Len(data)) \o data
  ELSE <<FrameTags.chunked>> \o encodeChunks(data, c)

FramingFailure(i) == [st |-> "error", data |-> <<>>, next |-> i]

\* the chunks from position i on, put together
RECURSIVE readChunks(_, _, _)
readChunks(bytes, i, acc) ==
  LET n == decodeVarIntFrom(bytes, i, 0, 0)
  IN IF n.err # NoError \/ n.next + n.value - 1 > Len(bytes)
     THEN FramingFailure(i)
     ELSE IF n.value = 0 THEN [st |-> "data", data |-> acc, next |-> n.next]
     ELSE readChunks(bytes, n.next + n.value,
                     acc \o SubSeq(bytes, n.next, n.next + n.value - 1))

\* next_substream(): the next framed substream, its chunks put together,
\* or none at the end marker
readSubstream(bytes, i) ==
  IF i > Len(bytes) THEN FramingFailure(i)
  ELSE CASE bytes[i] = FrameTags.bottleEnd ->
              [st |-> "none", data |-> <<>>, next |-> i + 1]
         [] bytes[i] = FrameTags.block ->
              LET n == decodeVarIntFrom(bytes, i + 1, 0, 0)
              IN IF n.err # NoError \/ n.next + n.value - 1 > Len(bytes)
                 THEN FramingFailure(i)
                 ELSE [st |-> "data",
                       data |-> SubSeq(bytes, n.next, n.next + n.value - 1),
                       next |-> n.next + n.value]
         [] bytes[i] = FrameTags.chunked -> readChunks(bytes, i + 1, <<>>)
         [] OTHER -> FramingFailure(i)

\* the contents of the model's substreams: bytes that are also tags and
\* lengths of the framing, no bytes, and more bytes than a chunk holds
Contents == {<<>>, <<0>>, <<2, 0, 1>>}
FrameHeaders ==
  {<<>>, <<WireString(FILENAME, <<<<97>>>>), WireInteger(SIZE, MaxChunk + 1)>>,
   <<WireBoolean(IS_FOLDER)>>}

NoBottleRead == [st |-> "none", kind |-> "", h |-> <<>>, got |-> <<>>, next |-> 0]

\* write_bottle(kind, header): the kind tag and the header
WriteBottle ==
  /\ cv.pc = "bottle"
  /\ cv' = [cv EXCEPT !.pc = "open",
                      !.bytes = <<KindTag(cv.kind)>> \o encodeHeader(cv.h)]
  /\ CodecUnchanged

\* write_substream of the next content, its length known or not
WriteSubstream ==
  /\ cv.pc = "open"
  /\ cv.written < Len(cv.subs)
  /\ \E c \in 0..MaxChunk :
       cv' = [cv EXCEPT !.written = @ + 1,
                        !.chunked = @ \/ c > 0,
                        !.bytes = @ \o encodeSubstream(cv.subs[cv.written + 1], c)]
  /\ CodecUnchanged

\* close(): the end-of-substreams marker
CloseBottle ==
  /\ cv.pc = "open"
  /\ cv.written = Len(cv.subs)
  /\ cv' = [cv EXCEPT !.pc = "closed", !.bytes = @ \o <<FrameTags.bottleEnd>>]
  /\ CodecUnchanged

\* read_bottle(byte_source): the kind tag and the header
ReadBottle ==
  /\ cv.pc = "closed"
  /\ LET header == decodeHeaderFrom(cv.bytes, 2, <<>>)
     IN cv' = [cv EXCEPT !.pc = "reading",
                         !.out = IF cv.bytes[1] \in DOMAIN Kinds
                                    /\ header.err = NoError
                                 THEN [st |-> "open", kind |-> Kinds[cv.bytes[1]],
                                       h |-> header.fields, got |-> <<>>,
                                       next |-> header.next]
                                 ELSE [NoBottleRead EXCEPT !.st = "error"]]
  /\ CodecUnchanged

\* next_substream(), the substream drained before the call returns
ReadSubstream ==
  /\ cv.pc = "reading"
  /\ cv.out.st = "open"
  /\ LET r == readSubstream(cv.bytes, cv.out.next)
     IN cv' = [cv EXCEPT !.out.st = IF r.st = "data" THEN "open" ELSE r.st,
                         !.out.got = IF r.st = "data" THEN Append(@, r.data) ELSE @,
                         !.out.next = r.next]
  /\ CodecUnchanged

InitFraming ==
  /\ Idle
  /\ dk = NoKeyCall
  /\ br = NoReader
  /\ qw = NoQpack
  /\ cv \in [pc : {"bottle"}, kind : {TYPE_FILE, TYPE_COMPRESSED},
              h : FrameHeaders, subs : SeqsUpTo(Contents, MaxSubs),
              written : {0}, chunked : {FALSE}, bytes : {<<>>},
              out : {NoBottleRead}]

NextFraming ==
  \/ WriteBottle
  \/ WriteSubstream
  \/ CloseBottle
  \/ ReadBottle
  \/ ReadSubstream

SpecFraming == InitFraming /\ [][NextFraming]_vars

\* ------------------------------------- one file archived while it changes

\* how often another process writes to the file while it is archived
MaxWrites == 1

\* what is in the file at the start
LeafFiles ==
  {[kind |-> "file", name |-> nm, data |-> d, kids |-> <<>>] :
     nm \in Names, d \in SeqsUpTo({7, 8}, MaxLen)}

\* what another process can make of the file with one write: one byte
\* more at its end, or its last byte gone
Rewritten(data) ==
  {Append(data, b) : b \in {7, 8}}
  \cup (IF data = <<>> THEN {} ELSE {SubSeq(data, 1, Len(data) - 1)})

\* _processFile, the fs.stat callback, for a file: the header is made of
\* what the file is at this moment
LeafStatDone ==
  /\ cv.pc = "stat"
  /\ cv' = [cv EXCEPT !.pc = "open",
                      !.header = fileHeaderFromStats(cv.file.name, StatOf(cv.file))]
  /\ CodecUnchanged

\* _processFile, the fs.open callback: the read stream is piped into a new
\* FileBottleWriter made of the header
LeafOpenDone ==
  /\ cv.pc = "open"
  /\ cv' = [cv EXCEPT !.pc = "streaming"]
  /\ CodecUnchanged

\* the read stream delivers the next bytes that are in the file now
LeafReadChunk ==
  /\ cv.pc = "streaming"
  /\ Len(cv.got) < Len(cv.file.data)
  /\ LET from == Len(cv.got) + 1
         to == IF from + ChunkLen - 1 < Len(cv.file.data)
               THEN from + ChunkLen - 1 ELSE Len(cv.file.data)
     IN cv' = [cv EXCEPT !.got = @ \o SubSeq(cv.file.data, from, to)]
  /\ CodecUnchanged

\* the read stream finds no more bytes in the file: it ends, and with it
\* the file's bottle
LeafEnd ==
  /\ cv.pc = "streaming"
  /\ Len(cv.got) >= Len(cv.file.data)
  /\ cv' = [cv EXCEPT !.pc = "ended", !.bottle = FileBottle(cv.header, cv.got)]
  /\ CodecUnchanged

\* another process writes to the file
FileRewritten ==
  /\ cv.pc \in {"stat", "open", "streaming"}
  /\ cv.writes < MaxWrites
  /\ \E d \in Rewritten(cv.file.data) :
       cv' = [cv EXCEPT !.file.data = d, !.writes = @ + 1,
                        !.late = cv.pc # "stat"]
  /\ CodecUnchanged

InitLeaf ==
  /\ Idle
  /\ dk = NoKeyCall
  /\ br = NoReader
  /\ qw = NoQpack
  /\ cv \in [pc : {"stat"}, file : LeafFiles, header : {NoHeader},
              got : {<<>>}, bottle : {NoBottle}, writes : {0}, late : {FALSE}]

NextLeaf ==
  \/ LeafStatDone
  \/ LeafOpenDone
  \/ LeafReadChunk
  \/ LeafEnd
  \/ FileRewritten

SpecLeaf == InitLeaf /\ [][NextLeaf]_vars

\* ------------------------------------------- the unpack tool, many archives
\* The run of the unpack tool over the archives of its command line: the
\* check of the output folder, the archives taken one after the other, each
\* with the listeners of its own reader.  cv is
\* [pc, o, mkdirOk, force, files, pending, active, finished, state, events,
\*  made, out].  The events of an archive are those its reader emits, in
\* the order of ArchiveReader.scan; the headers are whatever the archive
\* holds, also names and modes no writer of this repository produces.

MaxArchives == 2

\* the folder the tool runs in, and the folder of -o
WorkFolder == <<"w">>
OutputFolder == <<"w", "out">>

\* path.join: the components of all the arguments, normalised
RECURSIVE pathNormalize(_, _)
pathNormalize(acc, comps) ==
  IF comps = <<>> THEN acc
  ELSE LET c == Head(comps) IN
    pathNormalize(
      IF c \in {"", "."} THEN acc
      ELSE IF c = ".." THEN (IF acc = <<>> THEN acc
                             ELSE SubSeq(acc, 1, Len(acc) - 1))
      ELSE Append(acc, c),
      Tail(comps))

pathJoin(folder, name) == pathNormalize(folder, name)

\* filenames of headers, as their components between "/":
\* "a", "../a" and "/a"
HeaderNames == {<<"a">>, <<"..", "a">>, <<"", "a">>}

UnpackLeaf(name, mode, size) ==
  [kind |-> "file", filename |-> name, mode |-> mode, size |-> size,
   kids |-> <<>>]
UnpackFolder(name, kids) ==
  [kind |-> "folder", filename |-> name, mode |-> Some(493), size |-> 0,
   kids |-> kids]

TopLeaves ==
  {UnpackLeaf(n, m, 1) : n \in HeaderNames, m \in {None, Some(0), Some(420)}}
  \cup {UnpackLeaf(n, Some(420), 0) : n \in HeaderNames}
InnerLeaves == {UnpackLeaf(<<"a">>, Some(420), 1),
                UnpackLeaf(<<"b">>, Some(420), 0)}
UnpackTrees ==
  TopLeaves \cup
  {UnpackFolder(n, kids) : n \in HeaderNames, kids \in SeqsUpTo(InnerLeaves, 2)}

\* an archive: a tree of FILE bottles, bare or in one hashed or compressed
\* bottle
ArchiveFiles ==
  [tree : UnpackTrees, wrap : {"none", "hashed", "compressed"}]

\* what ArchiveReader.scan emits for a bottle, and where it calls
\* processFile
RECURSIVE EventsOf(_)
RECURSIVE EventsOfAll(_)
EventsOf(node) ==
  IF node.kind = "file"
  THEN << [ev |-> "start-bottle", bottle |-> node],
          [ev |-> "processFile", bottle |-> node],
          [ev |-> "end-bottle", bottle |-> node] >>
  ELSE << [ev |-> "start-bottle", bottle |-> node] >>
       \o EventsOfAll(node.kids)
       \o << [ev |-> "end-bottle", bottle |-> node] >>
EventsOfAll(kids) ==
  IF kids = <<>> THEN <<>> ELSE EventsOf(Head(kids)) \o EventsOfAll(Tail(kids))

WrapBottle(kind) ==
  [kind |-> kind, filename |-> <<>>, mode |-> None, size |-> 0, kids |-> <<>>]

scanEvents(a) ==
  IF a.wrap = "none" THEN EventsOf(a.tree)
  ELSE << [ev |-> "start-bottle", bottle |-> WrapBottle(a.wrap)] >>
       \o EventsOf(a.tree)
       \o (IF a.wrap = "hashed"
           THEN << [ev |-> "hash", bottle |-> WrapBottle(a.wrap)] >>
           ELSE <<>>)
       \o << [ev |-> "end-bottle", bottle |-> WrapBottle(a.wrap)] >>

\* what cv.state holds while no archive has been opened
StateUnused ==
  [totalFiles |-> 0, totalBytesOut |-> 0, currentFileTotalBytes |-> 0,
   currentFilename |-> None, currentDestFilename |-> None, prefix |-> <<>>,
   isFolder |-> FALSE, mode |-> None, validHash |-> None,
   compression |-> None]

\* the state of the archive unpacked last
StateOfLastArchive == cv.state

\* const state = { ... } of unpackArchiveFile
NewState ==
  [totalFiles |-> 0, totalBytesOut |-> 0, currentFileTotalBytes |-> 0,
   currentFilename |-> None, currentDestFilename |-> None, prefix |-> <<>>,
   isFolder |-> FALSE, mode |-> None, validHash |-> None,
   compression |-> None]

Concurrency == 1

\* what is at a path: the folders the tool runs in, the folder of -o, and
\* what the run has made
KindAt(path) ==
  IF path = <<>> \/ path = WorkFolder THEN "folder"
  ELSE IF path = OutputFolder THEN cv.o
  ELSE IF \E m \in cv.made : m.path = path
       THEN (CHOOSE m \in cv.made : m.path = path).kind
       ELSE "missing"

ParentIsFolder(path) ==
  path # <<>> /\ KindAt(SubSeq(path, 1, Len(path) - 1)) = "folder"

Exit(message) ==
  [cv EXCEPT !.pc = "exited", !.active = {},
             !.out = Append(@, [ev |-> "error", message |-> message])]

\* main, up to the call of unpackArchiveFiles
UnpackMain ==
  /\ cv.pc = "main"
  /\ cv' = IF cv.o = "missing"
           THEN IF cv.mkdirOk
                THEN [cv EXCEPT !.pc = "mapping", !.o = "folder"]
                ELSE Exit("Can't create folder")
           \* fs.statSync(outputFolder).isDirectory is a function, never
           \* called: the test of "Not a folder" is never true
           ELSE [cv EXCEPT !.pc = "mapping"]
  /\ CodecUnchanged

\* Promise.map with { concurrency: 1 } calls unpackArchiveFile
UnpackMapNext(i) ==
  /\ cv.pc = "mapping"
  /\ i \in cv.pending
  /\ Cardinality(cv.active) < Concurrency
  /\ cv' = [cv EXCEPT !.pending = @ \ {i}, !.active = @ \cup {i},
                      !.state = NewState,
                      !.events = scanEvents(cv.files[i])]
  /\ CodecUnchanged

ActiveArchive == CHOOSE i \in cv.active : TRUE
Scanning == cv.pc = "mapping" /\ cv.active # {} /\ cv.events # <<>>
NextEvent == Head(cv.events)

\* reader.on("start-bottle")
UnpackStartBottle ==
  /\ Scanning
  /\ NextEvent.ev = "start-bottle"
  /\ LET bottle == NextEvent.bottle
         niceFilename == Flatten(cv.state.prefix) \o bottle.filename
         dest == pathJoin(OutputFolder, niceFilename)
         isFolder == bottle.kind = "folder"
         state == [cv.state EXCEPT
                     !.currentFileTotalBytes = bottle.size,
                     !.currentFilename = Some(niceFilename),
                     !.currentDestFilename = Some(dest),
                     !.isFolder = isFolder,
                     !.mode = bottle.mode,
                     !.totalFiles = IF isFolder THEN @ ELSE @ + 1]
     IN
       IF bottle.kind \notin {"file", "folder"}
       THEN cv' = [cv EXCEPT !.events = Tail(@)]
       ELSE IF isFolder /\ KindAt(dest) # "folder"
                 /\ (KindAt(dest) # "missing" \/ ~ParentIsFolder(dest))
       \* mkdirSync throws in the listener: the scan is rejected
       THEN cv' = [Exit("Unable to unpack archive") EXCEPT !.state = state]
       ELSE cv' = [cv EXCEPT
                     !.events = Tail(@),
                     !.state = [state EXCEPT
                                  !.prefix = Append(@, bottle.filename)],
                     !.made = IF isFolder /\ KindAt(dest) = "missing"
                              THEN @ \cup {[path |-> dest, kind |-> "folder",
                                            mode |-> None,
                                            by |-> ActiveArchive]}
                              ELSE @]
  /\ CodecUnchanged

\* reader.processFile
UnpackProcessFile ==
  /\ Scanning
  /\ NextEvent.ev = "processFile"
  /\ LET realFilename == pathJoin(OutputFolder, cv.state.currentFilename[1])
         mode == IF cv.state.mode # None /\ cv.state.mode # Some(0)
                 THEN cv.state.mode[1] ELSE DefaultFileMode
         opens == /\ ParentIsFolder(realFilename)
                  /\ \/ KindAt(realFilename) = "missing"
                     \/ KindAt(realFilename) = "file" /\ cv.force
     IN
       IF opens
       THEN cv' = [cv EXCEPT
                     !.events = Tail(@),
                     !.made = IF KindAt(realFilename) = "missing"
                              THEN @ \cup {[path |-> realFilename,
                                            kind |-> "file",
                                            mode |-> Some(mode),
                                            by |-> ActiveArchive]}
                              ELSE @]
       ELSE cv' = Exit("Can't write")
  /\ CodecUnchanged

\* reader.on("end-bottle")
UnpackEndBottle ==
  /\ Scanning
  /\ NextEvent.ev = "end-bottle"
  /\ LET bottle == NextEvent.bottle IN
       cv' = IF bottle.kind \notin {"file", "folder"}
             THEN [cv EXCEPT !.events = Tail(@)]
             ELSE [cv EXCEPT
                     !.events = Tail(@),
                     !.state = [@ EXCEPT
                        !.totalBytesOut =
                           IF bottle.kind = "file"
                           THEN @ + cv.state.currentFileTotalBytes ELSE @,
                        !.currentFileTotalBytes = 0,
                        !.prefix = IF @ = <<>> THEN @
                                   ELSE SubSeq(@, 1, Len(@) - 1)]]
  /\ CodecUnchanged

\* reader.on("hash"): emitted with (isValid, hex), taken as
\* (bottle, isValid, hex); outside every folder the listener reads
\* bottle.header.hashName of a boolean and throws
UnpackHash ==
  /\ Scanning
  /\ NextEvent.ev = "hash"
  /\ cv' = IF cv.state.prefix = <<>>
           THEN Exit("Unable to unpack archive")
           ELSE [cv EXCEPT !.events = Tail(@)]
  /\ CodecUnchanged

\* the .then of scanStream: the summary line of the archive
UnpackSummary ==
  /\ cv.pc = "mapping" /\ cv.active # {} /\ cv.events = <<>>
  /\ cv' = [cv EXCEPT
              !.active = {},
              !.finished = @ \cup cv.active,
              !.out = Append(@, [ev |-> "summary", archive |-> ActiveArchive,
                                 totalFiles |-> cv.state.totalFiles,
                                 totalBytesOut |-> cv.state.totalBytesOut,
                                 validHash |-> cv.state.validHash,
                                 compression |-> cv.state.compression])]
  /\ CodecUnchanged

\* Promise.map has resolved
UnpackMapDone ==
  /\ cv.pc = "mapping" /\ cv.pending = {} /\ cv.active = {}
  /\ cv' = [cv EXCEPT !.pc = "done"]
  /\ CodecUnchanged

InitUnpack ==
  /\ Idle
  /\ dk = NoKeyCall
  /\ br = NoReader
  /\ qw = NoQpack
  /\ \E files \in SeqsUpTo(ArchiveFiles, MaxArchives) \ {<<>>} :
       cv \in [pc : {"main"}, o : {"missing", "file", "folder"},
               mkdirOk : BOOLEAN, force : BOOLEAN, files : {files},
               pending : {DOMAIN files}, active : {{}}, finished : {{}},
               state : {StateUnused}, events : {<<>>}, made : {{}},
               out : {<<>>}]

NextUnpack ==
  \/ UnpackMain
  \/ \E i \in 1..MaxArchives : UnpackMapNext(i)
  \/ UnpackStartBottle
  \/ UnpackProcessFile
  \/ UnpackEndBottle
  \/ UnpackHash
  \/ UnpackSummary
  \/ UnpackMapDone

SpecUnpack == InitUnpack /\ [][NextUnpack]_vars

\* ------------------------------------------------- the main of the pack tools
\* main of 4pack.js, of qpack (part_000) and of qpack.coffee, from the check
\* of the named inputs to the opening of the output file.  cv is
\* [pc, tool, inputs, encrypt, keybase, config, o0, o, canOpen, out,
\*  spawned, identity, code]: inputs says of every named path whether it
\* exists, keybase what "keybase status" would come to, config whether a
\* keybase config.json names a user, o what is at the output path.

MaxInputs == 2

PackTools == {"4pack.js", "qpack", "qpack.coffee"}

\* the first of the named paths that do not exist
firstMissing(inputs) ==
  LET missing == {i \in 1..Len(inputs) : ~inputs[i]} IN
    IF missing = {} THEN <<>>
    ELSE << CHOOSE i \in missing : \A j \in missing : i <= j >>

\* the named paths that do not exist, in the order of the command line
RECURSIVE missingFrom(_, _)
missingFrom(inputs, i) ==
  IF i > Len(inputs) THEN <<>>
  ELSE (IF inputs[i] THEN <<>> ELSE <<i>>) \o missingFrom(inputs, i + 1)
missingFiles(inputs) == missingFrom(inputs, 1)

CantFind(missing) ==
  [k \in 1..Len(missing) |-> [ev |-> "Can't find file", path |-> missing[k]]]

PackExit(message) ==
  [cv EXCEPT !.pc = "exited", !.code = 1,
             !.out = Append(@, [ev |-> message, path |-> 0])]

\* who calls keybaser.check() before the output is opened: 4pack.js
\* always, qpack under --encrypt, qpack.coffee never
ChecksKeybase ==
  \/ cv.tool = "4pack.js"
  \/ cv.tool = "qpack" /\ cv.encrypt

\* main, down to the call of keybaser.check() or to the opening of the
\* output
PackMain ==
  /\ cv.pc = "main"
  /\ LET missing == missingFiles(cv.inputs) IN
       cv' = IF missing # <<>>
             THEN [cv EXCEPT !.pc = "exited", !.code = 1,
                             !.out = @ \o CantFind(missing)]
             ELSE IF ~ChecksKeybase THEN [cv EXCEPT !.pc = "open"]
             ELSE IF cv.config
             \* findIdentityFromKeybaseConfig has the name
             THEN [cv EXCEPT !.pc = "open", !.identity = Some("me")]
             ELSE [cv EXCEPT !.pc = "checking", !.spawned = @ + 1]
  /\ CodecUnchanged

\* "keybase status" has ended, or could not be started
PackKeybaseChecked ==
  /\ cv.pc = "checking"
  /\ cv' = IF cv.keybase = "ok"
           THEN [cv EXCEPT !.pc = "open", !.identity = Some("me")]
           ELSE PackExit("Keybase error")
  /\ CodecUnchanged

\* fs.openSync(argv.o, "w")
PackOpenOutput ==
  /\ cv.pc = "open"
  /\ cv' = IF cv.canOpen
           THEN [cv EXCEPT !.pc = "writing", !.o = "empty"]
           ELSE PackExit("Unable to write")
  /\ CodecUnchanged

\* the archive has been written to the output and the output has finished
PackOutputFinished ==
  /\ cv.pc = "writing"
  /\ cv' = [cv EXCEPT !.pc = "done", !.o = "archive"]
  /\ CodecUnchanged

InitPackMain ==
  /\ Idle
  /\ dk = NoKeyCall
  /\ br = NoReader
  /\ qw = NoQpack
  /\ \E inputs \in SeqsUpTo(BOOLEAN, MaxInputs) \ {<<>>}, o \in {"missing", "old"} :
       cv \in [pc : {"main"}, tool : PackTools, inputs : {inputs},
               encrypt : BOOLEAN,
               keybase : {"ok", "no binary", "logged out"},
               config : BOOLEAN, o0 : {o}, o : {o}, canOpen : BOOLEAN,
               out : {<<>>}, spawned : {0}, identity : {None}, code : {0}]

NextPackMain ==
  \/ PackMain
  \/ PackKeybaseChecked
  \/ PackOpenOutput
  \/ PackOutputFinished

SpecPackMain == InitPackMain /\ [][NextPackMain]_vars

\* ------------------------------------------------------------- the Keybaser
\* One Keybaser object over a run of calls of check, encrypt and decrypt,
\* as keybaser.js has it and as the later Keybaser (part_001) has it, which
\* looks for a keybase config.json first.  cv is
\* [pc, version, config, identity, op, spawns, results]: config is the
\* user name a config file gives, spawns the keybase processes started,
\* results what every call came to, with the outcome of its process.

MaxKeybaseCalls == 3

KeybaserVersions == {"keybaser.js", "part_001"}

\* how a spawned keybase ends: it cannot be started, a signal kills it, or
\* it exits with a code; `keybase status` prints what it knows
ProcessOutcomes ==
  {[kind |-> k, code |-> 1, configured |-> FALSE, logged_in |-> FALSE,
    name |-> ""] : k \in {"error", "signal"}}
  \cup [kind : {"exit"}, code : {0, 1}, configured : BOOLEAN,
        logged_in : BOOLEAN, name : {"", "alice"}]

NoOutcome ==
  [kind |-> "none", code |-> 0, configured |-> FALSE, logged_in |-> FALSE,
   name |-> ""]

\* waitForProcess: the exit code, unless the process could not be started
\* or a signal ended it
waitForProcess(outcome) ==
  IF outcome.kind = "exit" THEN [ok |-> TRUE, code |-> outcome.code]
  ELSE [ok |-> FALSE, code |-> 0]

\* a check that takes the user name of a status that is not logged in
statusIdentityLoggedOut(outcome) ==
  LET waited == waitForProcess(outcome) IN
    IF ~waited.ok \/ waited.code # 0 THEN None
    ELSE IF ~outcome.configured THEN None
    ELSE IF outcome.name = "" THEN None
    ELSE Some(outcome.name)

\* the .then of check: the user name of the status, or nothing when check
\* throws
statusIdentity(outcome) ==
  LET waited == waitForProcess(outcome) IN
    IF ~waited.ok \/ waited.code # 0 THEN None
    ELSE IF ~outcome.configured THEN None
    ELSE IF ~outcome.logged_in THEN None
    ELSE IF outcome.name = "" THEN None
    ELSE Some(outcome.name)

\* the .then of encrypt and decrypt: stdout comes back after exit code 0
processOutput(outcome) ==
  LET waited == waitForProcess(outcome) IN waited.ok /\ waited.code = 0

KeybaserResult(op, st, outcome, identity, spawned) ==
  [op |-> op, st |-> st, outcome |-> outcome, identity |-> identity,
   spawned |-> spawned]

KeybaserIdle == cv.pc = "idle" /\ Len(cv.results) < MaxKeybaseCalls

\* check(), down to the spawn of `keybase status`
KeybaserCheck ==
  /\ KeybaserIdle
  /\ cv' = IF cv.identity # None
           THEN [cv EXCEPT !.results = Append(@,
                    KeybaserResult("check", "resolved", NoOutcome,
                                   cv.identity, FALSE))]
           ELSE IF cv.version = "part_001" /\ cv.config # None
           THEN [cv EXCEPT !.identity = cv.config,
                           !.results = Append(@,
                    KeybaserResult("check", "resolved", NoOutcome,
                                   cv.config, FALSE))]
           ELSE [cv EXCEPT !.pc = "wait", !.op = "check",
                           !.spawns = Append(@, "status")]
  /\ CodecUnchanged

\* `keybase status` has ended
KeybaserStatusDone ==
  /\ cv.pc = "wait" /\ cv.op = "check"
  /\ \E outcome \in ProcessOutcomes :
       LET identity == statusIdentity(outcome) IN
         cv' = [cv EXCEPT
                  !.pc = "idle",
                  !.identity = identity,
                  !.results = Append(@,
                     KeybaserResult("check",
                                    IF identity = None THEN "rejected"
                                    ELSE "resolved",
                                    outcome, identity, TRUE))]
  /\ CodecUnchanged

\* encrypt(key, target) and decrypt(encrypted): keybase is spawned
KeybaserSpawn(op) ==
  /\ KeybaserIdle
  /\ cv' = [cv EXCEPT !.pc = "wait", !.op = op, !.spawns = Append(@, op)]
  /\ CodecUnchanged

\* `keybase encrypt` or `keybase decrypt` has ended
KeybaserProcessDone ==
  /\ cv.pc = "wait" /\ cv.op # "check"
  /\ \E outcome \in ProcessOutcomes :
       /\ outcome.kind # "exit" \/ (~outcome.configured /\ ~outcome.logged_in
                                    /\ outcome.name = "")
       /\ cv' = [cv EXCEPT
                   !.pc = "idle",
                   !.results = Append(@,
                      KeybaserResult(cv.op,
                                     IF processOutput(outcome) THEN "resolved"
                                     ELSE "rejected",
                                     outcome, cv.identity, TRUE))]
  /\ CodecUnchanged

InitKeybaser ==
  /\ Idle
  /\ dk = NoKeyCall
  /\ br = NoReader
  /\ qw = NoQpack
  /\ cv \in [pc : {"idle"}, version : KeybaserVersions,
             config : {None, Some("bob")}, identity : {None},
             op : {"none"}, spawns : {<<>>}, results : {<<>>}]

NextKeybaser ==
  \/ KeybaserCheck
  \/ KeybaserStatusDone
  \/ \E op \in {"encrypt", "decrypt"} : KeybaserSpawn(op)
  \/ KeybaserProcessDone

SpecKeybaser == InitKeybaser /\ [][NextKeybaser]_vars

\* ------------------------------------------------------------ properties

NoEncryption == argv.encrypt = None /\ argv.password = None
\* unpack into an empty output folder
Unpacking == tool.name = "unpack" /\ tool.existing = <<>>
ScanOver == phase \in {"done", "failed"}

\* what a tree of entries looks like in a folder: kind and bytes by path
RECURSIVE FsOf(_, _)
RECURSIVE FsOfKids(_, _)
FsOf(prefix, node) ==
  ((prefix \o <<node.name>>) :>
     [kind |-> IF node.kind = "file" THEN "file" ELSE "folder",
      data |-> node.data])
  @@ FsOfKids(prefix \o <<node.name>>, node.kids)
FsOfKids(prefix, kids) ==
  IF kids = <<>> THEN <<>>
  ELSE FsOf(prefix, Head(kids)) @@ FsOfKids(prefix, Tail(kids))

TreeOf(fs) == [p \in DOMAIN fs |-> [kind |-> fs[p].kind, data |-> fs[p].data]]

\* C1: an input packed without encryption (any tool, compression and hashing
\* options) and unpacked into an empty folder comes out with the same paths,
\* the same kind at each path and the same bytes in each file.
C1_RoundTrip ==
  (ScanOver /\ Unpacking /\ NoEncryption /\ Pristine)
    => TreeOf(outfs) = FsOf(<<>>, RootNode)

\* a compressed archive of a folder with a non-empty file has been unpacked
C1_Unpacked ==
  /\ phase = "done" /\ Unpacking /\ Pristine
  /\ archive.type = TYPE_COMPRESSED
  /\ \E p \in DOMAIN outfs :
       Len(p) > 1 /\ outfs[p].kind = "file" /\ outfs[p].data # <<>>

\* what a scan announces for a tree: every entry before its children, the
\* children in their order, each with its path and the size of its content
RECURSIVE Announced(_, _)
RECURSIVE AnnouncedKids(_, _)
Announced(prefix, node) ==
  <<[name |-> prefix \o <<node.name>>,
     size |-> IF node.kind = "file" THEN Some(Len(node.data)) ELSE None,
     folder |-> node.kind # "file"]>>
  \o AnnouncedKids(prefix \o <<node.name>>, node.kids)
AnnouncedKids(prefix, kids) ==
  IF kids = <<>> THEN <<>>
  ELSE Announced(prefix, Head(kids)) \o AnnouncedKids(prefix, Tail(kids))

ChildNames(b) == [i \in 1..Len(b.subs) |-> b.subs[i].bottle.header.filename]
EntryNames(kids) == [i \in 1..Len(kids) |-> kids[i].name]

\* C2: the bottle of a folder whose listing is c1..cn has exactly n child
\* bottles, in the order of the listing; and unpacking announces every entry
\* in that order, named folder/child, with the length of its content as size.
C2_FolderOrder ==
  /\ \A p \in DOMAIN wt :
       (wt[p].st = "ended" /\ wt[p].header.folder)
         => /\ \A i \in 1..Len(BottleOf(p).subs) :
                 BottleOf(p).subs[i].kind = "bottle"
            /\ ChildNames(BottleOf(p)) = EntryNames(NodeAt(p).kids)
  /\ (ScanOver /\ Unpacking /\ NoEncryption /\ Pristine)
       => us.shown = Announced(<<>>, RootNode)

\* a folder of two files of different lengths has been packed and unpacked
C2_TwoChildren ==
  /\ phase = "done" /\ Unpacking /\ Pristine
  /\ RootNode.kind = "folder"
  /\ Len(RootNode.kids) = 2
  /\ Len(RootNode.kids[1].data) > Len(RootNode.kids[2].data)
  /\ Len(us.shown) = 3

\* the file or folder bottle inside the layers of an archive
RECURSIVE Innermost(_)
Innermost(b) == IF b.type = TYPE_FILE THEN b ELSE Innermost(b.subs[1].bottle)

\* C3: the bottle archiveFiles(name, paths) makes is one folder bottle: the
\* header says folder, filename = name, mode 0x1c0, no size, and the same
\* time three times; its children are the paths in their order; and
\* unpacking announces every input as name/<input> with its size.
C3_FakeFolder ==
  (Len(argv.paths) > 1 /\ phase # "pack" /\ Pristine)
    => LET top == Innermost(archive)
       IN /\ top.header.folder
          /\ top.header.filename = ArchiveName
          /\ top.header.mode = Some(FakeFolderMode)
          /\ top.header.size = None
          /\ top.header.createdNanos # None
          /\ top.header.createdNanos = top.header.modifiedNanos
          /\ top.header.modifiedNanos = top.header.accessedNanos
          /\ \A i \in 1..Len(top.subs) : top.subs[i].kind = "bottle"
          /\ ChildNames(top) = EntryNames(argv.paths)
          /\ (ScanOver /\ Unpacking /\ NoEncryption)
               => \A i \in 1..Len(argv.paths) :
                    \E j \in 1..Len(us.shown) :
                      /\ us.shown[j].name = <<ArchiveName, argv.paths[i].name>>
                      /\ argv.paths[i].kind = "file"
                           => us.shown[j].size = Some(Len(argv.paths[i].data))

\* two paths, a file of two bytes among them, archived together and unpacked
C3_TwoPaths ==
  /\ phase = "done" /\ Unpacking /\ Pristine
  /\ Len(argv.paths) = 2
  /\ argv.paths[2].kind = "file" /\ Len(argv.paths[2].data) = 2

Streaming == {p \in DOMAIN wt : wt[p].st = "streaming"}
InSeq(x, seq) == \E i \in 1..Len(seq) : seq[i] = x

\* C4: the writer takes the children of every folder one at a time: a child
\* is not started (stat, then open) before every child ahead of it in the
\* listing has ended and is in the folder's bottle, so that no two files
\* are being read at once.
C4_OneAtATime ==
  /\ Cardinality(Streaming) <= 1
  /\ \A p \in DOMAIN wt : \A q \in DOMAIN wt :
       (p # <<>> /\ q # <<>> /\ Parent(p) = Parent(q) /\ Last(p) < Last(q))
         => wt[p].st = "ended" /\ InSeq(Last(p), wt[Parent(p)].subs)

\* the second child of a folder is being read
C4_SecondChildStreaming ==
  \E p \in DOMAIN wt : p # <<>> /\ Last(p) = 2 /\ wt[p].st = "streaming"

\* --- the reader's log

At(ev, id) == {i \in 1..Len(rlog) : rlog[i].ev = ev /\ rlog[i].id = id}
Count(ev, from, to) == Cardinality({i \in from..to : rlog[i].ev = ev})
StartPos(id) == CHOOSE i \in 1..Len(rlog) : i \in At("start-bottle", id)
Ended(id) == At("end-bottle", id) # {}
\* where the bottle's end-bottle is, or the end of the log so far
EndPos(id) ==
  IF Ended(id) THEN CHOOSE i \in 1..Len(rlog) : i \in At("end-bottle", id)
  ELSE Len(rlog) + 1
Scanned(id) == rlog[StartPos(id)].args[1].v
\* the start-bottle events of the bottles scanned directly inside bottle id:
\* every bottle that started after it had ended before them
ChildStarts(id) ==
  {j \in (StartPos(id) + 1)..(EndPos(id) - 1) :
     /\ rlog[j].ev = "start-bottle"
     /\ Count("start-bottle", StartPos(id) + 1, j - 1)
          = Count("end-bottle", StartPos(id) + 1, j - 1)}
Within(j, id) == StartPos(id) < j /\ j < EndPos(id)

IsFolder(b) == b.type = TYPE_FILE /\ b.header.folder
IsLeaf(b) == b.type = TYPE_FILE /\ ~b.header.folder

\* C5: the scan of a folder bottle of n substreams scans n bottles directly
\* inside it, the substreams in their order: each child has ended before
\* the next one starts, and the folder ends after the last child has ended
\* and not before all n have been scanned.
C5_FolderScan ==
  \A f \in 1..StartCount :
    IsFolder(Scanned(f)) =>
      LET cs == ChildStarts(f)
          n == Len(Scanned(f).subs)
      IN /\ Cardinality(cs) <= n
         /\ Ended(f) => Cardinality(cs) = n
         /\ \A j \in cs :
              LET k == Cardinality({i \in cs : i <= j})
              IN /\ rlog[j].args[1].v = Scanned(f).subs[k].bottle
                 /\ \A l \in cs : j < l => EndPos(rlog[j].id) < l
                 /\ Ended(f) => EndPos(rlog[j].id) < EndPos(f)

\* a folder of two entries has been scanned to its end
C5_TwoScanned ==
  \E f \in 1..StartCount :
    IsFolder(Scanned(f)) /\ Ended(f) /\ Cardinality(ChildStarts(f)) = 2

\* C6: the scan of a leaf file bottle calls processFile with the bottle's
\* substream once, between the bottle's start-bottle and its end-bottle, and
\* the bottle ends only after processFile has seen all of the content; the
\* default processFile writes the content nowhere.
C6_LeafScan ==
  /\ \A f \in 1..StartCount :
       IsLeaf(Scanned(f)) =>
         LET ps == At("processFile", f)
             ds == At("drained", f)
         IN /\ Cardinality(ps) <= 1 /\ Cardinality(ds) <= 1
            /\ Ended(f) => Cardinality(ps) = 1 /\ Cardinality(ds) = 1
            /\ \A j \in ps :
                 Within(j, f) /\ rlog[j].args = <<StrV(Scanned(f).subs[1].data)>>
            /\ \A j \in ds :
                 /\ Within(j, f)
                 /\ \E i \in ps : i < j
                 /\ rlog[j].args = <<StrV(Scanned(f).subs[1].data)>>
  /\ tool.name = "scan" => outfs = <<>>

\* a bare reader has scanned a file of two bytes to its end
C6_Drained ==
  /\ tool.name = "scan"
  /\ \E f \in 1..StartCount :
       IsLeaf(Scanned(f)) /\ Ended(f) /\ Len(Scanned(f).subs[1].data) = 2

\* C7: a bottle of a type the reader does not know is skipped to its end:
\* when the scan is over, every one of its substreams has been drained and
\* its end-bottle has been emitted.
C7_SkipToEnd ==
  ScanOver =>
    \A f \in 1..StartCount :
      Scanned(f).type = TYPE_UNKNOWN =>
        /\ Ended(f)
        /\ Cardinality(At("skipped", f)) = Len(Scanned(f).subs)

\* C8: an encrypted bottle is decrypted and scanned: when the scan is over,
\* decryptKey has been called once for it, the bottle inside it has been
\* scanned after that, and none of it was skipped.
C8_EncryptedScanned ==
  ScanOver =>
    \A f \in 1..StartCount :
      Scanned(f).type = TYPE_ENCRYPTED =>
        /\ Cardinality(At("decryptKey", f)) = 1
        /\ \A k \in At("decryptKey", f) :
             \E j \in ChildStarts(f) :
               k < j /\ rlog[j].args[1].v = Scanned(f).subs[1].bottle
        /\ At("skipped", f) = {}

\* C9: the scan of a hashed bottle emits "hash" with (valid, hex) at most
\* once, only after the bottle inside it has ended, and exactly once before
\* its own end-bottle; a scan that fails inside it emits none.
C9_HashOutcome ==
  \A f \in 1..StartCount :
    Scanned(f).type = TYPE_HASHED =>
      LET hs == At("hash", f)
      IN /\ Cardinality(hs) <= 1
         /\ \A j \in hs :
              /\ Len(rlog[j].args) = 2
              /\ rlog[j].args[1].t = "bool" /\ rlog[j].args[2].t = "str"
              /\ Within(j, f)
              /\ \E c \in ChildStarts(f) :
                   /\ rlog[c].args[1].v = Scanned(f).subs[1].bottle
                   /\ EndPos(rlog[c].id) < j
         /\ Ended(f) => Cardinality(hs) = 1
         /\ (scanres.st = "rejected" /\ \E c \in ChildStarts(f) : ~Ended(rlog[c].id))
              => hs = {}

\* a bare reader has scanned a hashed archive to its end
C9_HashedScanned ==
  \E f \in 1..StartCount :
    Scanned(f).type = TYPE_HASHED /\ Ended(f) /\ At("hash", f) # {}

\* the bytes inside the hashed archive are the bytes pack wrote
InnerIntact == archive.subs[1] = Written.subs[1]

\* C10: the validity a hashed archive yields is true when the stored bytes
\* inside it are the ones written and false when one byte of them has
\* changed, both as validate() resolves it and as "hash" reports it.
C10_ExactValidation ==
  (phase # "pack" /\ archive.type = TYPE_HASHED) =>
    /\ validate(archive).valid = InnerIntact
    /\ \A j \in At("hash", 1) : rlog[j].args[1] = BoolV(InnerIntact)

\* a hashed archive with a changed byte inside has been scanned up to "hash"
C10_ChangedByteSeen ==
  /\ archive.type = TYPE_HASHED
  /\ ~InnerIntact
  /\ At("hash", 1) # {}

\* the leaf file bottles inside a bottle, counted
RECURSIVE LeafCount(_)
RECURSIVE LeafCountSubs(_)
LeafCount(b) == IF IsLeaf(b) THEN 1 ELSE LeafCountSubs(b.subs)
LeafCountSubs(ss) ==
  IF ss = <<>> THEN 0
  ELSE (IF Head(ss).kind = "data" THEN 0 ELSE LeafCount(Head(ss).bottle))
       + LeafCountSubs(Tail(ss))

\* the names of the file and folder bottles open at position s of the log,
\* outermost first, from position i on
RECURSIVE NamesOpenAt(_, _)
NamesOpenAt(i, s) ==
  IF i >= s THEN <<>>
  ELSE (IF /\ rlog[i].ev = "start-bottle"
           /\ rlog[i].args[1].v.type = TYPE_FILE
           /\ EndPos(rlog[i].id) > s
        THEN <<rlog[i].args[1].v.header.filename>> ELSE <<>>)
       \o NamesOpenAt(i + 1, s)
\* where unpack puts the file of the leaf bottle id
PathOf(id) == NamesOpenAt(1, StartPos(id)) \o <<Scanned(id).header.filename>>

\* the leaf bottles scanned inside bottle f, whose content had all reached
\* its sink, and which had ended, before position j
DeliveredBefore(f, j) ==
  {g \in 1..StartCount :
     /\ IsLeaf(Scanned(g))
     /\ StartPos(f) < StartPos(g)
     /\ EndPos(g) < j
     /\ \E d \in At("drained", g) :
          d < j /\ rlog[d].args = <<StrV(Scanned(g).subs[1].data)>>}

\* C11: when "hash" reports a hashed bottle as not valid, every leaf file
\* inside it has been handed to processFile and has reached its sink before
\* the report; and what unpack wrote stays in the output folder from then on.
C11_DeliveredBeforeMismatch ==
  \A f \in 1..StartCount : \A j \in At("hash", f) :
    rlog[j].args[1] = BoolV(FALSE) =>
      /\ Cardinality(DeliveredBefore(f, j)) = LeafCount(Scanned(f))
      /\ Unpacking =>
           \A g \in DeliveredBefore(f, j) :
             /\ PathOf(g) \in DOMAIN outfs
             /\ outfs[PathOf(g)].kind = "file"
             /\ outfs[PathOf(g)].data = Scanned(g).subs[1].data

\* unpack has been told of a mismatch after it wrote a file with content,
\* and the scan is over
C11_MismatchAfterWrite ==
  /\ Unpacking /\ ScanOver
  /\ \E j \in At("hash", 1) : rlog[j].args[1] = BoolV(FALSE)
  /\ \E p \in DOMAIN outfs : outfs[p].kind = "file" /\ outfs[p].data # <<>>

InvalidHash == "Invalid hash; archive is probably corrupt."
Listening == tool.name \in {"unpack", "list"}

\* C12: when "hash" reports a bottle as not valid, unpack and list fail
\* with "Invalid hash; archive is probably corrupt."; and a hash name is
\* recorded as valid only after a "hash" that reported valid.
C12_InvalidHashFails ==
  Listening =>
    /\ \A f \in 1..StartCount : \A j \in At("hash", f) :
         rlog[j].args[1] = BoolV(FALSE)
           => scanres = [st |-> "rejected", err |-> InvalidHash]
    /\ us.validHash # None
         => \E f \in 1..StartCount : \E j \in At("hash", f) :
              rlog[j].args[1] = BoolV(TRUE)

\* the files of the archive that unpack finds already there
Clashing ==
  {p \in DOMAIN FsOf(<<>>, RootNode) :
     FsOf(<<>>, RootNode)[p].kind = "file" /\ p \in DOMAIN tool.existing}

\* C13: unpack without --force never opens or changes a file that is
\* already there, and when the archive holds a file by that path it reports
\* the file as existing and exits with failure; with --force the file gets
\* the archived content.
C13_OverwritePolicy ==
  tool.name = "unpack" =>
    /\ ~tool.force =>
         /\ \A p \in DOMAIN tool.existing :
              p \in DOMAIN outfs /\ outfs[p] = tool.existing[p]
         /\ \A i \in 1..Len(rstack) :
              rstack[i].stage = "processing"
                => rstack[i].dest \notin DOMAIN tool.existing
         /\ (ScanOver /\ NoEncryption /\ Pristine /\ Clashing # {})
              => /\ phase = "failed"
                 /\ scanres = [st |-> "exited", err |-> "EEXIST"]
                 /\ \E j \in 1..Len(rlog) :
                      rlog[j].ev = "error" /\ rlog[j].args = <<StrV(<<"EEXIST">>)>>
    /\ (tool.force /\ ScanOver /\ NoEncryption /\ Pristine)
         => \A p \in Clashing :
              /\ outfs[p].kind = "file"
              /\ outfs[p].data = FsOf(<<>>, RootNode)[p].data

\* unpack without --force has met a file of the archive that was there
C13_Refused ==
  /\ tool.name = "unpack" /\ ~tool.force
  /\ Clashing # {}
  /\ scanres.st = "exited"

\* ---- C14
\* the types of the layers of a bottle, outermost first, down to the first
\* bottle that is no layer
RECURSIVE LayerTypes(_)
LayerTypes(b) ==
  IF b.type \in {TYPE_HASHED, TYPE_ENCRYPTED, TYPE_COMPRESSED} /\ Len(b.subs) > 0
  THEN <<b.type>> \o LayerTypes(b.subs[1].bottle)
  ELSE <<>>

RECURSIVE Unwrapped(_)
Unwrapped(b) ==
  IF b.type \in {TYPE_HASHED, TYPE_ENCRYPTED, TYPE_COMPRESSED} /\ Len(b.subs) > 0
  THEN Unwrapped(b.subs[1].bottle)
  ELSE b

ExpectedLayers(o) ==
  (IF o.hash # "none" THEN <<TYPE_HASHED>> ELSE <<>>)
  \o (IF o.recipients # None \/ o.password # None THEN <<TYPE_ENCRYPTED>> ELSE <<>>)
  \o (IF o.compression # NoCompression THEN <<TYPE_COMPRESSED>> ELSE <<>>)

\* C14: whatever the options handed to assemblePipes, the archive that pack
\* wrote is the file or folder bottle wrapped by the compressed bottle (when
\* a codec is chosen), that by the encrypted bottle (when recipients or a
\* password are given), that by the hashed bottle (when a hash is chosen),
\* the hashed bottle outermost; each kind of layer occurs at most once and an
\* option that is off adds none.
C14_LayerOrder ==
  (phase # "pack" /\ Pristine) =>
    /\ LayerTypes(archive) = ExpectedLayers(PipeOptions(argv))
    /\ Unwrapped(archive) = BottleOf(<<>>)
    /\ Unwrapped(archive).type = TYPE_FILE

\* an archive with all three layers has been written
C14_AllLayers ==
  phase = "packed" /\ Pristine /\ Len(LayerTypes(archive)) = 3

\* ---- C15
\* the codec tags of the compressed layers of a bottle, outermost first
RECURSIVE CodecTags(_)
CodecTags(b) ==
  IF b.type \in {TYPE_HASHED, TYPE_ENCRYPTED, TYPE_COMPRESSED} /\ Len(b.subs) > 0
  THEN (IF b.type = TYPE_COMPRESSED THEN <<b.header.tag>> ELSE <<>>)
       \o CodecTags(b.subs[1].bottle)
  ELSE <<>>

\* C15: the archive that pack wrote has a COMPRESSED bottle exactly when
\* --no-compress was not given, with or without encryption, and its codec
\* tag is Snappy under --snappy and LZMA2 otherwise.
C15_CompressionFlag ==
  (phase # "pack" /\ Pristine) =>
    CodecTags(archive) =
      (IF argv.compress
       THEN <<IF argv.snappy THEN COMPRESSION_SNAPPY ELSE COMPRESSION_LZMA2>>
       ELSE <<>>)

\* the same of the qpack tool alone, which follows the flag
C15_QpackCompressionFlag ==
  (phase # "pack" /\ Pristine /\ argv.tool = "qpack") =>
    CodecTags(archive) =
      (IF argv.compress
       THEN <<IF argv.snappy THEN COMPRESSION_SNAPPY ELSE COMPRESSION_LZMA2>>
       ELSE <<>>)

\* ---- C16
\* C16: the scan of a compressed bottle whose tag names a supported codec
\* goes on with the scan of the bottle inside it; when the tag names none,
\* the scan is rejected with UnsupportedCodec once that bottle is reached,
\* nothing inside it is scanned and it gets no end-bottle.
C16_CompressedScan ==
  \A f \in 1..StartCount :
    Scanned(f).type = TYPE_COMPRESSED =>
      IF Scanned(f).header.tag \in SupportedCodecs
      THEN /\ \A c \in ChildStarts(f) :
                rlog[c].args[1].v = Scanned(f).subs[1].bottle
           /\ Cardinality(ChildStarts(f)) <= 1
           /\ Ended(f) => Cardinality(ChildStarts(f)) = 1
           /\ scanres.err # "UnsupportedCodec"
      ELSE /\ ChildStarts(f) = {}
           /\ ~Ended(f)
           /\ StartCount = f
           /\ ScanOver =>
                /\ scanres = [st |-> "rejected", err |-> "UnsupportedCodec"]
                /\ phase = "failed"

\* the scan of an archive has been rejected at a compressed bottle whose tag
\* names no codec
C16_UnsupportedSeen ==
  /\ scanres = [st |-> "rejected", err |-> "UnsupportedCodec"]
  /\ Scanned(StartCount).type = TYPE_COMPRESSED

\* ---- C17
\* the start-bottle events of file entries that lie inside bottle id
EntriesInside(id) ==
  {j \in 1..Len(rlog) :
     /\ rlog[j].ev = "start-bottle" /\ Within(j, id)
     /\ rlog[j].args[1].v.type = TYPE_FILE}

PasswordArchive ==
  /\ tool.name \in {"list", "unpack"}
  /\ argv.password # None /\ argv.encrypt = None
  /\ phase # "pack" /\ Pristine

\* C17: a password-encrypted archive listed or unpacked without the password
\* of pack (none, or another one) ends in a reported error with no file entry
\* announced from inside the encrypted bottle; with the password of pack it
\* ends well and the files that were packed are announced.
C17_PasswordArchive ==
  PasswordArchive =>
    /\ tool.password # argv.password =>
         /\ \A f \in 1..StartCount :
              Scanned(f).type = TYPE_ENCRYPTED => EntriesInside(f) = {}
         /\ ScanOver => phase = "failed" /\ scanres.err # NoError
    /\ (tool.password = argv.password /\ ScanOver) =>
         /\ scanres = [st |-> "resolved", err |-> NoError]
         /\ \E j \in 1..Len(rlog) :
              /\ rlog[j].ev = "start-bottle"
              /\ rlog[j].args[1].v = BottleOf(<<>>)

\* the part of C17 about a missing or wrong password
C17_WithoutPassword ==
  (PasswordArchive /\ tool.password # argv.password) =>
    /\ \A f \in 1..StartCount :
         Scanned(f).type = TYPE_ENCRYPTED => EntriesInside(f) = {}
    /\ ScanOver => phase = "failed" /\ scanres.err # NoError

\* ---- C18
DecryptCalls == {i \in 1..Len(dk.calls) : dk.calls[i][1] = "decrypt"}

\* C18: for a key map with recipients, decryptKey hands keybase decrypt
\* nothing but the entry of "keybase:<identity>", the identity being the one
\* the check established; when that entry is absent it fails with "No
\* encryption key for ..." and keybase decrypt has not run; when the check
\* fails, keybase decrypt is never run.
C18_KeyFromOwnEntry ==
  DOMAIN dk.keymap # {} =>
    /\ \A i \in DecryptCalls :
         /\ dk.identity # None
         /\ Self(dk.identity[1]) \in DOMAIN dk.keymap
         /\ dk.calls[i][2] = dk.keymap[Self(dk.identity[1])]
    /\ Cardinality(DecryptCalls) <= 1
    /\ (dk.pc = "done" /\ dk.identity # None
          /\ Self(dk.identity[1]) \notin DOMAIN dk.keymap)
         => /\ dk.result = [st |-> "rejected",
                            v |-> NoKeyError(dk.keymap, Self(dk.identity[1]))]
            /\ DecryptCalls = {}
    /\ (dk.pc = "done" /\ dk.identity = None)
         => /\ dk.result = [st |-> "rejected", v |-> dk.status.err]
            /\ dk.status.err # NoError
            /\ DecryptCalls = {}

\* decryptKey has failed for a key map that has an entry, but none for the
\* identity
C18_NoOwnEntry ==
  /\ dk.pc = "done"
  /\ DOMAIN dk.keymap # {}
  /\ dk.identity # None
  /\ Self(dk.identity[1]) \notin DOMAIN dk.keymap
  /\ dk.result.st = "rejected"

\* ---- C19
\* C19: a call of next_substream() made while the substream returned before
\* it is neither drained nor skipped fails with BottleSequencingViolation,
\* and hands out nothing; a call made after that substream is at its end
\* does not fail.
C19_SequencingViolation ==
  \A i \in 1..Len(br.log) :
    /\ br.log[i].call.open <=> br.log[i].ret = "BottleSequencingViolation"
    /\ Cardinality({j \in 1..i : br.log[j].ret = "stream"})
         = (IF br.log[i].ret = "stream" THEN br.log[i].call.idx + 1
            ELSE br.log[i].call.idx)

\* next_substream() was called with bytes of the last substream unread
C19_CalledEarly ==
  \E i \in 1..Len(br.log) :
    /\ br.log[i].call.open /\ br.log[i].call.left > 0
    /\ br.log[i].ret = "BottleSequencingViolation"

\* ---- C20
\* what the bottle of the entry at p holds when all of it is written
AllWritten(p) ==
  IF NodeAt(p).kind = "file" THEN <<"data">> ELSE ListingOrder(NodeAt(p).kids)

C20_LeafClosedOnce ==
  \A p \in DOMAIN qw.b :
    NodeAt(p).kind = "file" =>
      /\ qw.b[p].closes <= 1
      /\ qw.b[p].closes > 0 => qw.b[p].atclose = AllWritten(p)
      /\ qw.b[p].late = 0
      /\ qw.t[p].pc = "done" => qw.b[p].closes = 1

\* the same of the ArchiveWriter: a bottle that has ended is not written or
\* ended again, and a bottle ends only with all of its substreams written
\* (a file's bytes; every entry of a folder, each ended itself)
ArchiveWriterCloses ==
  \A p \in DOMAIN wt :
    /\ wt[p].st = "ended" => wt'[p] = wt[p]
    /\ (wt[p].st # "ended" /\ wt'[p].st = "ended") =>
         IF wt[p].header.folder
         THEN /\ wt[p].subs = ListingOrder(NodeAt(p).kids)
              /\ \A i \in 1..Len(wt[p].subs) :
                   wt[p \o <<wt[p].subs[i]>>].st = "ended"
         ELSE wt[p].got = NodeAt(p).data
C20_ArchiveWriterClosedOnce == [][ArchiveWriterCloses]_vars

\* ---- C21
FailedEntries == {p \in DOMAIN wt : wt[p].st = "failed"}
Surfacings == {i \in 1..Len(wlog) : wlog[i].ev \in {"error", "rejected"}}
\* the entries that a bottle was made for: written into their folder's
\* bottle, or, at the top, handed to the caller
Bottled(p) ==
  IF p = <<>> THEN wt[p].st \in {"filling", "streaming", "ended", "errored"}
  ELSE Last(p) \in {wt[Parent(p)].subs[i] : i \in 1..Len(wt[Parent(p)].subs)}

\* C21: when fs.stat, fs.readdir or fs.open fails for an entry, at any
\* depth, the failure comes out exactly once, as the rejected promise of
\* archiveFile or as one "error" event; no bottle is made for that entry;
\* and none of the entries listed after it in its folder is stat'ed or
\* opened.  Without a failure nothing is reported.
C21_FailFast ==
  /\ Cardinality(Surfacings) = Cardinality(FailedEntries)
  /\ Cardinality(FailedEntries) <= 1
  /\ \A p \in FailedEntries :
       /\ ~Bottled(p)
       /\ \A q \in DOMAIN wt : Len(q) > Len(p) => SubSeq(q, 1, Len(p)) # p
       /\ \A i \in Surfacings :
            wlog[i].ev = (IF p = <<>> THEN "rejected" ELSE "error")
       /\ p # <<>> =>
            \A k \in 1..Len(NodeAt(Parent(p)).kids) :
              k > Last(p) => ~Started(Parent(p) \o <<k>>)

\* an entry with a sibling listed after it, inside a folder that is not the
\* top one, has failed
C21_NestedFailure ==
  \E p \in FailedEntries :
    /\ Len(p) >= 1
    /\ Last(p) < Len(NodeAt(Parent(p)).kids)
    /\ phase = "packfailed"

\* ---- C22
FramingError == "MalformedHeader"

\* C22: once the bytes of a nested bottle fail to decode, the promise of the
\* top-level scanStream is rejected; from then on no start-bottle, no
\* end-bottle and no processFile (nothing emitted, nothing written to the
\* output folder) happens; and none of the bottles open around the failure
\* has got an end-bottle.
FatalStep ==
  /\ scanres'.err = FramingError =>
       /\ scanres'.st = "rejected" /\ phase' = "failed"
       /\ rstack' # <<>>
       /\ \A i \in 1..Len(rstack') :
            \A j \in 1..Len(rlog') :
              ~(rlog'[j].ev = "end-bottle" /\ rlog'[j].id = rstack'[i].id)
  /\ scanres.err = FramingError =>
       /\ rlog' = rlog /\ outfs' = outfs /\ us' = us /\ rstack' = rstack
       /\ scanres' = scanres
C22_FramingFatal == [][FatalStep]_vars

\* the scan has failed on the bytes of a bottle two levels down
C22_NestedFramingError ==
  scanres.err = FramingError /\ Len(rstack) >= 2 /\ StartCount >= 2

\* ---- C23
\* C23: the record that decodeFileHeader gives for the header that
\* encodeFileHeader made of a metadata record has the record's filename,
\* mode, created, modified and accessed nanoseconds, user name and group
\* name (each when the record has it, and none when it has not), its folder
\* flag, and, for a file, its size; a field of a type or id that the FILE
\* header does not know, added anywhere, changes nothing of that.
C23_MetadataRoundTrip ==
  cv.pc = "decoded" =>
    /\ cv.rv.filename = Some(cv.stats.filename)
    /\ cv.rv.mode = cv.stats.mode
    /\ cv.rv.createdNanos = cv.stats.createdNanos
    /\ cv.rv.modifiedNanos = cv.stats.modifiedNanos
    /\ cv.rv.accessedNanos = cv.stats.accessedNanos
    /\ cv.rv.username = cv.stats.username
    /\ cv.rv.groupname = cv.stats.groupname
    /\ cv.rv.folder = cv.stats.folder
    /\ ~cv.stats.folder => cv.rv.size = cv.stats.size
    /\ cv.rv = decodeFileHeader(encodeFileHeader(cv.stats))

\* a header with a field of an unknown id has been decoded, for a record
\* that has every item
C23_UnknownFieldDecoded ==
  /\ cv.pc = "decoded" /\ cv.injected
  /\ cv.stats.username # None /\ cv.stats.groupname # None
  /\ cv.stats.mode # None /\ cv.stats.createdNanos # None
  /\ \E i \in 1..Len(cv.m) : cv.m[i].type = TYPE_BOOL /\ cv.m[i].id = UnknownId

\* ---- C28
HasField(m, type, id) == \E i \in 1..Len(m) : m[i].type = type /\ m[i].id = id

\* C28: a header that encodeFileHeader made is a folder header or a leaf
\* header, never both and never neither: it has IS_FOLDER and no SIZE when
\* the record is a folder, SIZE and no IS_FOLDER when it is not; and
\* decodeFileHeader says folder = false exactly of a header without
\* IS_FOLDER.
C28_FolderXorLeaf ==
  /\ (cv.pc = "encoded" /\ ~cv.injected) =>
       /\ HasField(cv.m, TYPE_BOOL, IS_FOLDER) = cv.stats.folder
       /\ HasField(cv.m, TYPE_ZINT, SIZE) = ~cv.stats.folder
  /\ cv.pc = "decoded" =>
       (cv.rv.folder = FALSE) = ~HasField(cv.m, TYPE_BOOL, IS_FOLDER)

\* the header of a folder whose record has a size, as fs.stat gives one for
\* a directory, has been encoded
C28_SizedFolderEncoded ==
  /\ cv.pc = "encoded" /\ ~cv.injected
  /\ cv.stats.folder /\ cv.stats.size = Some(MaxLen)

\* ---- C24
\* the least number of bytes whose magnitude bits hold v
RECURSIVE MinBytes(_)
MinBytes(v) == IF v < Continuation THEN 1 ELSE 1 + MinBytes(v \div Continuation)

\* C24: a VarInt decodes to the value it was encoded from, using up the
\* whole encoding; the encoding is the shortest one, of bytes, with the
\* continuation bit on all but the last and no empty last byte, so that a
\* value has one encoding; and a proper prefix of an encoding fails to
\* decode, with MalformedVarInt.
C24_VarIntRoundTrip ==
  /\ cv.pc = "encoded" /\ ~cv.cut =>
       /\ Len(cv.bytes) = MinBytes(cv.v)
       /\ Len(cv.bytes) <= MaxVarIntBytes
       /\ \A i \in 1..Len(cv.bytes) :
            /\ cv.bytes[i] \in 0..(2 * Continuation - 1)
            /\ (cv.bytes[i] >= Continuation) = (i < Len(cv.bytes))
       /\ Len(cv.bytes) > 1 => cv.bytes[Len(cv.bytes)] # 0
       /\ \A w \in VarIntValues : encodeVarInt(w) = cv.bytes => w = cv.v
  /\ cv.pc = "decoded" /\ ~cv.cut =>
       cv.out = [err |-> NoError, value |-> cv.v, next |-> Len(cv.bytes) + 1]
  /\ cv.pc = "decoded" /\ cv.cut => cv.out.err = MalformedVarInt

\* the maximum value has gone through the codec, and so has a prefix of
\* its encoding
C24_MaxDecoded ==
  /\ cv.pc = "decoded" /\ cv.v = MaxVarInt
  /\ cv.cut /\ Len(cv.bytes) = MaxVarIntBytes - 1

\* ---- C25
\* C25: a header decodes from its encoding to itself, whatever number of
\* fields of each type class it has, the strings of a STRING field in
\* their order; and a header that has a field of an unknown type class
\* decodes without error and encodes again to the bytes it came from.
C25_HeaderRoundTrip ==
  /\ cv.pc \in {"decoded", "reencoded"} =>
       /\ cv.out.err = NoError
       /\ cv.out.next = Len(cv.bytes) + 1
       /\ ~cv.injected => cv.out.fields = cv.h
  /\ cv.pc = "reencoded" => cv.again = cv.bytes

\* a header of three fields, one of them with two different strings, has
\* been through the codec and back with an unknown field between them
C25_UnknownReencoded ==
  /\ cv.pc = "reencoded" /\ cv.injected
  /\ Len(cv.h) = MaxFields
  /\ cv.bytes[1] # 9
  /\ \E i \in 1..Len(cv.h) :
       /\ cv.h[i].type = TYPE_STRING
       /\ Len(cv.h[i].list) = 2
       /\ cv.h[i].list[1] # cv.h[i].list[2]
  /\ \E i \in 1..Len(cv.out.fields) : cv.out.fields[i].type = "opaque"

LastBottleEvent ==
  LET at == {i \in 1..Len(rlog) : rlog[i].ev \in {"start-bottle", "end-bottle"}}
      last == CHOOSE i \in at : \A j \in at : j <= i
  IN rlog[last]

\* the substream that the frame got from its last read has been used up: a
\* leaf's data has all gone to the sink and processFile is over, a bottle
\* inside has been scanned to its "end-bottle"
LastConsumed(f) ==
  \/ f.idx = 0
  \/ /\ f.idx \in 1..Len(f.bottle.subs)
     /\ LET sub == f.bottle.subs[f.idx]
        IN IF sub.kind = "data"
           THEN f.stage \notin {"opening", "processing"} /\ f.piped = sub.data
           ELSE /\ LastBottleEvent.ev = "end-bottle"
                /\ LastBottleEvent.args = <<BottleV(sub.bottle)>>

\* the frame asks its bottle for the next substream in this step: it gets
\* one, or it gets none and comes to its end
Requests(f, g) ==
  \/ g.idx = f.idx + 1
  \/ f.stage \in {"folder", "file", "skip"} /\ g.stage = "end"

ReadStep ==
  \A k \in 1..Len(rstack) :
    (/\ k <= Len(rstack')
     /\ rstack'[k].id = rstack[k].id
     /\ Requests(rstack[k], rstack'[k]))
    => /\ k = Len(rstack)
       /\ LastConsumed(rstack[k])

\* C27: the reader asks a bottle for its next substream only when no
\* bottle inside it is still being scanned and the substream it got before
\* has been used up, also after unpack's processFile could not open its
\* file and returned with the data unread.
C27_SingleCursor == [][ReadStep]_vars

\* unpack's processFile could not open the file of a leaf that has bytes
C27_OpenFailedUnread ==
  /\ rstack # <<>>
  /\ Top.stage = "opening"
  /\ scanres.st = "exited"
  /\ Top.bottle.subs[Top.idx].data # <<>>
  /\ Len(rstack) > 1

C29_SizeIsCountUnchanged ==
  (cv.pc = "ended" /\ ~cv.late) =>
    Len(cv.bottle.subs[1].data) = cv.bottle.header.size[1]

\* a file has been archived that grew after fs.stat
C29_GrewAfterStat ==
  /\ cv.pc = "ended" /\ cv.late
  /\ Len(cv.bottle.subs[1].data) > cv.bottle.header.size[1]

\* ---- C30
BottleEvents == {"start-bottle", "end-bottle"}

\* the bottles in the substreams of a bottle
BottlesIn(b) ==
  {b.subs[i].bottle : i \in {j \in 1..Len(b.subs) : b.subs[j].kind # "data"}}

\* C30: when a scan has succeeded, every "start-bottle" has exactly one
\* "end-bottle" after it, for the same bottle, and no "end-bottle" is
\* without its "start-bottle"; of two bottles, one's pair of events lies
\* inside the other's pair or wholly before or after it, and the pairs
\* directly inside a bottle's pair are those of the bottles in its
\* substreams; the first event is the "start-bottle" of the outermost
\* bottle and the last its "end-bottle".
C30_ProperNesting ==
  scanres.st = "resolved" =>
    /\ \A i \in 1..Len(rlog) :
         rlog[i].ev \in BottleEvents => rlog[i].id \in 1..StartCount
    /\ \A id \in 1..StartCount :
         /\ Cardinality(At("start-bottle", id)) = 1
         /\ Cardinality(At("end-bottle", id)) = 1
         /\ StartPos(id) < EndPos(id)
         /\ rlog[EndPos(id)].args = rlog[StartPos(id)].args
         /\ \A c \in ChildStarts(id) : rlog[c].args[1].v \in BottlesIn(Scanned(id))
         /\ id # 1 => Within(StartPos(id), 1) /\ Within(EndPos(id), 1)
    /\ \A a, b \in 1..StartCount :
         (a # b /\ Within(StartPos(b), a)) => Within(EndPos(b), a)
    /\ rlog[1] = Event("start-bottle", 1, <<BottleV(archive)>>)
    /\ rlog[Len(rlog)] = Event("end-bottle", 1, <<BottleV(archive)>>)

\* a scan has succeeded of an archive with two bottles side by side in a
\* folder that is itself inside another bottle
C30_SiblingsNested ==
  /\ scanres.st = "resolved"
  /\ \E f \in 2..StartCount :
       /\ IsFolder(Scanned(f))
       /\ Cardinality(ChildStarts(f)) = 2

\* ---- C31
\* the entries that have had their "filename" event
AnnouncedTasks == {p \in DOMAIN wt : wt[p].display # NoDisplay}
FilenameAt(p) ==
  {i \in 1..Len(wlog) : wlog[i].ev = "filename" /\ wlog[i].name = wt[p].display}
FilenamePos(p) == CHOOSE i \in 1..Len(wlog) : i \in FilenameAt(p)
\* the "filename" event that came last before event i
LastFilenameBefore(i) ==
  LET at == {j \in 1..(i - 1) : wlog[j].ev = "filename"}
  IN CHOOSE j \in at : \A k \in at : k <= j

\* C31: every file and folder that the walk has reached has exactly one
\* "filename" event, with its header, and there are no others; it comes
\* before every "status" event of the entry and, for an entry in a folder,
\* after the folder's own; the display name of a folder ends in "/" and
\* that of a file does not, and it is the display name of the enclosing
\* folder followed by the entry's name; and every "status" event has the
\* name of the "filename" event that came last before it, and a count that
\* has grown with every "status" event since.
C31_WalkOrder ==
  /\ \A p \in AnnouncedTasks :
       /\ Cardinality(FilenameAt(p)) = 1
       /\ wlog[FilenamePos(p)].header = wt[p].header
       /\ wt[p].display.slash = wt[p].header.folder
       /\ wt[p].display.slash = (NodeAt(p).kind # "file")
       /\ wt[p].display.parts =
            (IF p = <<>> THEN <<>> ELSE wt[Parent(p)].display.parts)
            \o <<NodeAt(p).name>>
       /\ p # <<>> => /\ Parent(p) \in AnnouncedTasks
                      /\ FilenamePos(Parent(p)) < FilenamePos(p)
  /\ \A p \in DOMAIN wt : p \notin AnnouncedTasks => wt[p].got = <<>>
  /\ Cardinality({i \in 1..Len(wlog) : wlog[i].ev = "filename"})
       = Cardinality(AnnouncedTasks)
  /\ \A i \in 1..Len(wlog) :
       wlog[i].ev = "status" =>
         /\ \E j \in 1..(i - 1) : wlog[j].ev = "filename"
         /\ wlog[LastFilenameBefore(i)].name = wlog[i].name
         /\ ~wlog[i].name.slash
         /\ LET n == Cardinality({j \in (LastFilenameBefore(i) + 1)..i :
                                     wlog[j].ev = "status"})
            IN n <= wlog[i].count /\ wlog[i].count <= n * ChunkLen

\* a file two folders down has been read to its end
C31_DeepFileStreamed ==
  /\ phase = "packed"
  /\ \E i \in 1..Len(wlog) :
       /\ wlog[i].ev = "status"
       /\ Len(wlog[i].name.parts) = 3
       /\ wlog[i].count = MaxLen

\* ---- C32
\* the paths of the entries of a tree, from path p on
RECURSIVE TreePaths(_, _)
TreePaths(node, p) ==
  {p} \cup UNION {TreePaths(node.kids[k], p \o <<k>>) : k \in 1..Len(node.kids)}

IsPrefix(q, p) == Len(q) <= Len(p) /\ SubSeq(p, 1, Len(q)) = q

\* the bottle of every entry has ended, that of a folder with all its
\* entries in it
AllEnded ==
  /\ DOMAIN wt = TreePaths(RootNode, <<>>)
  /\ \A p \in DOMAIN wt : wt[p].st = "ended"

PackOutcome ==
  /\ phase \notin {"pack", "packfailed"} =>
       /\ AllEnded
       /\ Surfacings = {}
       /\ archive # NoBottle
  /\ phase = "packfailed" =>
       /\ archive = NoBottle
       /\ Cardinality(FailedEntries) = 1
       /\ wlog # <<>> /\ Len(wlog) \in Surfacings
       /\ \A p \in FailedEntries : \A q \in DOMAIN wt :
            IsPrefix(q, p) => wt[q].st # "ended"
  /\ phase = "pack" => archive = NoBottle
  /\ \A p \in DOMAIN wt :
       (wt[p].st = "ended" /\ wt[p].header.folder) =>
         /\ wt[p].queue = <<>>
         /\ Len(wt[p].subs) = Len(NodeAt(p).kids)
         /\ \A k \in 1..Len(NodeAt(p).kids) :
              Started(p \o <<k>>) /\ wt[p \o <<k>>].st = "ended"

\* a bottle that has ended, or whose entry or folder has failed, stays so
EndedForGood ==
  \A p \in DOMAIN wt :
    wt[p].st \in {"ended", "failed", "errored"} =>
      p \in DOMAIN wt' /\ wt'[p] = wt[p]

\* C32: the archive is finished only when the bottle of every entry has
\* ended and nothing failed; a folder's bottle ends once, after the bottles
\* of all its entries; and after a failure the bottles of the folders
\* around the failed entry never end, no archive is reported as written,
\* and the failure is the last thing the writer signals.
C32_FinishedIffNoFailure == []PackOutcome /\ [][EndedForGood]_vars

\* a pack has failed inside a folder whose first entry's bottle had ended
C32_FailedAfterSibling ==
  /\ phase = "packfailed"
  /\ \E p \in FailedEntries :
       /\ Len(p) >= 1 /\ Last(p) > 1
       /\ wt[Parent(p) \o <<1>>].st = "ended"
       /\ wt[Parent(p)].st = "errored"

\* ---- C33
\* the files of a tree of FILE bottles, their sizes, and where they go
RECURSIVE FilesIn(_)
RECURSIVE FilesInAll(_)
FilesIn(node) ==
  IF node.kind = "file" THEN <<node>> ELSE FilesInAll(node.kids)
FilesInAll(kids) ==
  IF kids = <<>> THEN <<>> ELSE FilesIn(Head(kids)) \o FilesInAll(Tail(kids))

RECURSIVE SizesOf(_)
SizesOf(files) ==
  IF files = <<>> THEN 0 ELSE Head(files).size + SizesOf(Tail(files))

DestinationsOf(tree) ==
  {pathJoin(OutputFolder, tree.filename)}
  \cup {pathJoin(OutputFolder, tree.filename \o tree.kids[k].filename) :
          k \in 1..Len(tree.kids)}

\* the events of the archive being scanned that its reader has emitted
Emitted ==
  LET all == scanEvents(cv.files[ActiveArchive]) IN
    SubSeq(all, 1, Len(all) - Len(cv.events))

StartedFiles ==
  {i \in 1..Len(Emitted) :
     Emitted[i].ev = "start-bottle" /\ Emitted[i].bottle.kind = "file"}
EndedFiles ==
  {i \in 1..Len(Emitted) :
     Emitted[i].ev = "end-bottle" /\ Emitted[i].bottle.kind = "file"}

\* C33: of the archives of one run at most one is being scanned; the
\* counters of the archive being scanned count the bottles of that archive
\* alone, its summary gives the files and bytes of that archive alone, and
\* everything made for an archive lies where that archive alone puts it.
C33_OneAtATimeFreshState ==
  /\ Cardinality(cv.active) <= 1
  /\ cv.active \cap cv.pending = {} /\ cv.active \cap cv.finished = {}
  /\ (cv.pc = "mapping" /\ cv.active # {}) =>
       /\ cv.state.totalFiles = Cardinality(StartedFiles)
       /\ cv.state.totalBytesOut =
            SizesOf([i \in 1..Cardinality(EndedFiles) |->
                       FilesIn(cv.files[ActiveArchive].tree)[i]])
       /\ Len(cv.state.prefix) <= 2
  /\ \A i \in 1..Len(cv.out) :
       cv.out[i].ev = "summary" =>
         LET files == FilesIn(cv.files[cv.out[i].archive].tree) IN
           /\ cv.out[i].totalFiles = Len(files)
           /\ cv.out[i].totalBytesOut = SizesOf(files)
  /\ \A m \in cv.made : m.path \in DestinationsOf(cv.files[m.by].tree)

\* two archives with different numbers of files have both been summarised
C33_SecondSummarised ==
  /\ cv.pc = "done"
  /\ \E i, j \in 1..Len(cv.out) :
       /\ i < j
       /\ cv.out[i].ev = "summary" /\ cv.out[j].ev = "summary"
       /\ cv.out[i].totalFiles = 2 /\ cv.out[j].totalFiles = 1
       /\ cv.out[i].totalBytesOut = 1 /\ cv.out[j].totalBytesOut = 0

\* ---- C34
\* C34: a pack without --encrypt starts no keybase process and never ends
\* on a keybase error.
C34_KeybaseOnlyToEncrypt ==
  ~cv.encrypt =>
    /\ cv.spawned = 0
    /\ \A i \in 1..Len(cv.out) : cv.out[i].ev # "Keybase error"

\* C34 for the tools that ask for keybase under --encrypt only
C34_KeybaseOnlyToEncryptQpack ==
  cv.tool # "4pack.js" => C34_KeybaseOnlyToEncrypt

\* a pack without --encrypt has ended on a keybase error, its output
\* never opened
C34_PlainPackStopped ==
  /\ ~cv.encrypt /\ cv.pc = "exited" /\ cv.o = cv.o0
  /\ missingFiles(cv.inputs) = <<>>
  /\ cv.out = << [ev |-> "Keybase error", path |-> 0] >>

\* ---- C35
\* C35: when a named input does not exist, pack names every missing path,
\* in the order of the command line, says nothing else, ends with failure,
\* and what is at the output path is what was there before.
C35_InputsCheckedFirst ==
  (missingFiles(cv.inputs) # <<>> /\ cv.pc # "main") =>
    /\ cv.pc = "exited" /\ cv.code = 1
    /\ cv.o = cv.o0
    /\ cv.spawned = 0
    /\ Len(cv.out) = Cardinality({i \in DOMAIN cv.inputs : ~cv.inputs[i]})
    /\ \A i \in DOMAIN cv.inputs :
         ~cv.inputs[i] <=>
           \E k \in 1..Len(cv.out) :
             cv.out[k] = [ev |-> "Can't find file", path |-> i]

\* both named inputs were missing and an older file is at the output path
C35_TwoMissing ==
  /\ cv.pc = "exited"
  /\ cv.inputs = <<FALSE, FALSE>>
  /\ cv.o0 = "old" /\ cv.o = "old"
  /\ Len(cv.out) = 2

\* ---- C36
NoArchiveTouched ==
  /\ cv.pending = DOMAIN cv.files
  /\ cv.active = {} /\ cv.finished = {} /\ cv.made = {}

\* C36: when something that is no folder is at the path of -o, unpack
\* says "Not a folder" and ends with failure, no archive scanned; when
\* nothing is there the folder is made, or the failure to make it is
\* reported and ends the run, no archive scanned.
C36_TargetChecked ==
  /\ (cv.o = "file" /\ cv.pc # "main") =>
       /\ cv.pc = "exited"
       /\ cv.out = << [ev |-> "error", message |-> "Not a folder"] >>
       /\ NoArchiveTouched
  /\ (cv.o = "missing" /\ cv.pc # "main") =>
       /\ cv.pc = "exited"
       /\ cv.out = << [ev |-> "error", message |-> "Can't create folder"] >>
       /\ NoArchiveTouched

\* the part of C36 about a path of -o where nothing is
C36_MissingTargetMade ==
  (cv.o = "missing" /\ cv.pc # "main") =>
    /\ ~cv.mkdirOk
    /\ cv.pc = "exited"
    /\ cv.out = << [ev |-> "error", message |-> "Can't create folder"] >>
    /\ NoArchiveTouched

\* with a file at the path of -o an archive was scanned to its end and
\* summarised, its entries made beside the working folder
C36_UnpackedBesideAFile ==
  /\ cv.o = "file" /\ cv.pc = "done"
  /\ cv.made # {}
  /\ \E i \in 1..Len(cv.out) : cv.out[i].ev = "summary"

\* ---- C37
\* the filenames of the FILE bottles among the first k open bottles
RECURSIVE OpenFileNames(_)
OpenFileNames(k) ==
  IF k = 0 THEN <<>>
  ELSE OpenFileNames(k - 1)
       \o (IF typeName(rstack[k].bottle) \in {"file", "folder"}
           THEN <<rstack[k].bottle.header.filename>> ELSE <<>>)

\* C37: while unpack scans, the prefix stack is the filenames of the FILE
\* bottles that have started and not ended, outermost first, whatever
\* hashed, compressed or encrypted bottles are open around or between
\* them; it is empty when the scan has completed; and the destination
\* processFile opens is the filenames of the folders around the leaf
\* followed by the leaf's own.
C37_PrefixIsOpenFiles ==
  (tool.name = "unpack" /\ phase \in {"read", "done"}) =>
    /\ us.prefix = OpenFileNames(Len(rstack))
    /\ phase = "done" => us.prefix = <<>>
    /\ \A k \in 1..Len(rstack) :
         rstack[k].dest # <<>> =>
           /\ typeName(rstack[k].bottle) = "file"
           /\ rstack[k].dest = OpenFileNames(k)

\* a file inside a folder inside a bottle that is no FILE bottle is being
\* written, after an entry of that folder has ended
C37_LeafInWrappedFolder ==
  /\ tool.name = "unpack" /\ phase = "read"
  /\ Len(rstack) >= 3
  /\ typeName(rstack[1].bottle) \notin {"file", "folder"}
  /\ Top.stage = "processing"
  /\ Len(Top.dest) >= 2
  /\ us.totalFiles >= 2

\* ---- C38
\* C38: whatever unpack makes, file or folder, lies in the folder of -o.
C38_InsideOutputFolder ==
  \A m \in cv.made : IsPrefix(OutputFolder, m.path)

HasDotDot(tree) ==
  \/ \E i \in 1..Len(tree.filename) : tree.filename[i] = ".."
  \/ \E k \in 1..Len(tree.kids) :
       \E i \in 1..Len(tree.kids[k].filename) :
         tree.kids[k].filename[i] = ".."

\* C38 for the archives without ".." in a filename, those with absolute
\* names among them
C38_InsideWithoutDotDot ==
  \A m \in cv.made :
    ~HasDotDot(cv.files[m.by].tree) => IsPrefix(OutputFolder, m.path)

\* a file was made beside the folder of -o and the run has completed
C38_FileMadeOutside ==
  /\ cv.pc = "done"
  /\ \E m \in cv.made :
       /\ m.kind = "file"
       /\ m.path = WorkFolder \o <<"a">>

\* a file with an absolute name was made in the folder of -o
C38_AbsoluteNameInside ==
  \E m \in cv.made :
    /\ cv.files[m.by].tree.filename = <<"", "a">>
    /\ m.kind = "file"
    /\ m.path = OutputFolder \o <<"a">>

\* ---- C39
\* the leaves of a tree of FILE bottles with the places they go to
LeavesAt(tree) ==
  IF tree.kind = "file"
  THEN {[leaf |-> tree, path |-> pathJoin(OutputFolder, tree.filename)]}
  ELSE {[leaf |-> tree.kids[k],
         path |-> pathJoin(OutputFolder,
                           tree.filename \o tree.kids[k].filename)] :
          k \in 1..Len(tree.kids)}

ModeFor(leaf) == IF leaf.mode = None THEN Some(DefaultFileMode) ELSE leaf.mode

\* C39, the side of unpack: every file unpack makes is opened with the
\* mode of the header of its bottle, and with 0666 only when that header
\* has no mode.
C39_ModeAsRecorded ==
  \A m \in cv.made :
    m.kind = "file" =>
      \E l \in LeavesAt(cv.files[m.by].tree) :
        l.path = m.path /\ m.mode = ModeFor(l.leaf)

\* C39 for the headers whose mode is not 0
C39_ModeAsRecordedNonZero ==
  \A m \in cv.made :
    m.kind = "file" =>
      \E l \in LeavesAt(cv.files[m.by].tree) :
        /\ l.path = m.path
        /\ l.leaf.mode # Some(0) => m.mode = ModeFor(l.leaf)

\* a file whose header records mode 0 was made with mode 0666
C39_ModeZeroMadeDefault ==
  \E m \in cv.made :
    /\ m.kind = "file" /\ m.mode = Some(DefaultFileMode)
    /\ cv.files[m.by].tree.kind = "file"
    /\ cv.files[m.by].tree.mode = Some(0)
    /\ Len(cv.files) = 1

\* ---- C40
IdentityBefore(i) == IF i = 1 THEN None ELSE cv.results[i - 1].identity

StatusGood(outcome) ==
  /\ outcome.kind = "exit" /\ outcome.code = 0
  /\ outcome.configured /\ outcome.logged_in /\ outcome.name # ""

\* C40: a check sets the identity only from a status that exited with 0
\* and reports configured, logged in and a user name, or from the name of
\* a config file; with the identity set, a check resolves without a
\* process and keeps it; a check that is rejected leaves the identity
\* null; encrypt and decrypt resolve exactly when their process exited
\* with code 0, no signal having ended it, and leave the identity alone.
C40_IdentityConsistent ==
  /\ cv.pc = "idle" /\ cv.results # <<>> =>
       cv.identity = cv.results[Len(cv.results)].identity
  /\ Len(cv.spawns) =
       Cardinality({i \in 1..Len(cv.results) : cv.results[i].spawned})
       + (IF cv.pc = "wait" THEN 1 ELSE 0)
  /\ \A i \in 1..Len(cv.results) :
       LET r == cv.results[i] IN
         IF r.op = "check"
         THEN /\ IdentityBefore(i) # None =>
                   /\ ~r.spawned /\ r.st = "resolved"
                   /\ r.identity = IdentityBefore(i)
              /\ (IdentityBefore(i) = None /\ r.identity # None) =>
                   \/ /\ r.spawned /\ StatusGood(r.outcome)
                      /\ r.identity = Some(r.outcome.name)
                   \/ /\ ~r.spawned /\ cv.version = "part_001"
                      /\ r.identity = cv.config
              /\ r.st = "rejected" <=> r.identity = None
              /\ r.st = "rejected" => r.spawned /\ ~StatusGood(r.outcome)
         ELSE /\ r.spawned
              /\ r.identity = IdentityBefore(i)
              /\ r.st = "resolved" <=>
                   (r.outcome.kind = "exit" /\ r.outcome.code = 0)

\* a check was rejected for a status that is not logged in, the next
\* check set the identity from a good status, and a third resolved
\* without a process
C40_CheckedThrice ==
  /\ Len(cv.results) = 3 /\ Len(cv.spawns) = 2
  /\ \A i \in 1..3 : cv.results[i].op = "check"
  /\ cv.results[1].st = "rejected"
  /\ cv.results[1].outcome.configured /\ ~cv.results[1].outcome.logged_in
  /\ cv.results[1].outcome.name # ""
  /\ cv.results[2].st = "resolved"
  /\ cv.results[3].st = "resolved" /\ ~cv.results[3].spawned

====
